---- MODULE Spec2Model ----
(***************************************************************************)
(* Environments of clembench (greeting, portal, tic-tac-toe, sudoku) and   *)
(* the orchestrator that drives an episode, as one state machine.  `env'   *)
(* selects what a behaviour runs: one of the environments, whose fields    *)
(* are the other variables, or ("play") the orchestrator, held in `gm'.    *)
(* With "tttplay" and "helloplay" a game master drives its environment:    *)
(* the environment is in its own variables, the master's side in `gm'.     *)
(* With "gen" the portal instance generator runs, its locals in `gm'.       *)
(* With "sudokugame" the sudoku master validates and parses responses.     *)
(***************************************************************************)
EXTENDS Integers, Sequences, FiniteSets, TLC

VARIABLES
    env,                 \* which environment class was constructed
    config,              \* self.config
    ready,               \* reset() has run at least once
    state,               \* self.state
    terminated,          \* self.terminated (greeting environment)
    truncated,           \* self.truncated  (greeting environment)
    info,                \* self.info       (greeting environment)
    player_observations, \* self.player_observations (greeting environment)
    explored,            \* self.explored (portal)
    current_player,      \* self.current_player (tic-tac-toe)
    observations,        \* self.observations (grid environments)
    action_spaces,       \* self.action_spaces
    last,                \* the last call made on the environment and its outcome
    accepted,            \* number of accepted actions since the last reset()
    gm                   \* the orchestrator (DialogueGameMaster) of an episode

vars == <<env, config, ready, state, terminated, truncated, info,
          player_observations, explored, current_player, observations,
          action_spaces, last, accepted, gm>>

NA == "n/a"
\* the record of a call: which operation, whether it returned ("ok") or raised,
\* what step() made of the action, whether the episode had already ended when
\* the call was made, whether reset() followed accepted actions, and the reward;
\* bad_type tells that a registered player stepped a running episode with an
\* action whose action_type is not in the action space
Call(op, outcome, verdict, on_terminated, after_steps, reward) ==
    [ op |-> op, outcome |-> outcome, verdict |-> verdict,
      on_terminated |-> on_terminated, after_steps |-> after_steps, reward |-> reward,
      bad_type |-> FALSE ]

NoCall == Call("init", "ok", "none", FALSE, FALSE, 0)

ResetCall(n) == Call("reset", "ok", "none", FALSE, n > 0, 0)

(***************************************************************************)
(* Strings are sequences of one-character strings.                         *)
(***************************************************************************)
UpperCase == <<"A","B","C","D","E","F","G","H","I","J","K","L","M",
               "N","O","P","Q","R","S","T","U","V","W","X","Y","Z">>
LowerCase == <<"a","b","c","d","e","f","g","h","i","j","k","l","m",
               "n","o","p","q","r","s","t","u","v","w","x","y","z">>

\* string.punctuation (the grave accent is written "GRAVE": a string of
\* the module cannot hold that character)
Punctuation == {"!", "\"", "#", "$", "%", "&", "'", "(", ")", "*", "+", ",",
                "-", ".", "/", ":", ";", "<", "=", ">", "?", "@", "[", "\\",
                "]", "^", "_", "GRAVE", "{", "|", "}", "~"}

LowerChar(c) ==
    IF \E i \in 1..26 : UpperCase[i] = c
    THEN LowerCase[CHOOSE i \in 1..26 : UpperCase[i] = c]
    ELSE c

\* str.lower()
Lower(s) == [i \in 1..Len(s) |-> LowerChar(s[i])]

NotPunctuation(c) == c \notin Punctuation

\* s.translate(str.maketrans("", "", string.punctuation))
StripPunctuation(s) == SelectSeq(s, NotPunctuation)

\* s.startswith(p)
StartsWith(s, p) == Len(s) >= Len(p) /\ SubSeq(s, 1, Len(p)) = p

\* w in s
Contains(s, w) == \E i \in 1..(Len(s) - Len(w) + 1) : SubSeq(s, i, i + Len(w) - 1) = w

sGREET   == <<"G","R","E","E","T",":">>
sWelcome == <<"w","e","l","c","o","m","e">>
sHello   == <<"h","e","l","l","o">>
sPrompt  == <<"p","r","o","m","p","t">>

(***************************************************************************)
(* Inputs of the greeting environment.                                     *)
(***************************************************************************)
MaxPieces == 4

TargetNames == { <<"T","e","d">>, <<"O","'","N">> }

Pieces == { sGREET, sWelcome, <<"H","e","l","l","o">>, <<"T","e","d">>,
            <<"O","'","N">> }

RECURSIVE Concat(_)
Concat(ps) == IF ps = <<>> THEN <<>> ELSE Head(ps) \o Concat(Tail(ps))

Greetings == { Concat(ps) : ps \in UNION { [1..n -> Pieces] : n \in 0..MaxPieces } }

HelloPlayers == {"Player 1", "Player 2"}

HelloConfigs == { [target_name |-> n, language |-> "en", prompt |-> sPrompt] : n \in TargetNames }

HelloSpaces == [default |-> "spaces.Dict"]

\* action_type is spaces.Discrete(1): 0 is its only member
HelloActionTypes == {0}

\* the action types step() is called with
HelloActionTypeInputs == {0, 1}

\* the players observe_for() is asked about: one of the game and a stranger
HelloObservers == {"Player 1", "Player 3"}

(***************************************************************************)
(* HelloGameEnvironment                                                    *)
(***************************************************************************)
HelloInitState(cfg) ==
    [ target_name     |-> cfg.target_name,
      language        |-> cfg.language,
      prompt          |-> cfg.prompt,
      required_words  |-> <<sWelcome, sHello, Lower(cfg.target_name)>>,
      missing_words   |-> <<>>,
      success         |-> FALSE,
      aborted         |-> FALSE,
      round           |-> 0,
      current_context |-> cfg.prompt ]

RECURSIVE MissingWords(_, _)
MissingWords(required, clean) ==
    IF required = <<>> THEN <<>>
    ELSE (IF Contains(clean, Head(required)) THEN <<>> ELSE <<Head(required)>>)
         \o MissingWords(Tail(required), clean)

\* variant: success is set before the prefix is checked and not taken back
ValidateGreetingSuccessFirst(st, greeting) ==
    LET greeting_clean == StripPunctuation(Lower(greeting))
        missing_words  == MissingWords(st.required_words, greeting_clean)
    IN  IF ~StartsWith(greeting, sGREET)
        THEN [st EXCEPT !.aborted = TRUE, !.success = TRUE]
        ELSE [st EXCEPT !.aborted = FALSE,
                        !.success = (missing_words = <<>>),
                        !.missing_words = missing_words]

\* variant: the required words are looked up before the prefix is checked
ValidateGreetingWordsFirst(st, greeting) ==
    LET greeting_clean == StripPunctuation(Lower(greeting))
        missing_words  == MissingWords(st.required_words, greeting_clean)
    IN  IF ~StartsWith(greeting, sGREET)
        THEN [st EXCEPT !.aborted = TRUE, !.success = FALSE, !.missing_words = missing_words]
        ELSE [st EXCEPT !.aborted = FALSE,
                        !.success = (missing_words = <<>>),
                        !.missing_words = missing_words]

ValidateGreeting(st, greeting) ==
    IF ~StartsWith(greeting, sGREET)
    THEN [st EXCEPT !.aborted = TRUE, !.success = FALSE]
    ELSE LET greeting_clean == StripPunctuation(Lower(greeting))
             missing_words  == MissingWords(st.required_words, greeting_clean)
         IN  [st EXCEPT !.aborted = FALSE,
                        !.success = (missing_words = <<>>),
                        !.missing_words = missing_words]

ResultMessage(st) ==
    IF st.aborted THEN <<"invalid format: abort game">>
    ELSE IF st.success THEN <<"greeting successful: end game">>
    ELSE <<"greeting failed: missing words", st.missing_words>>

Reward(st) == IF st.success THEN 1 ELSE 0

SetObservationFor(obs, player, content) ==
    [p \in (DOMAIN obs) \cup {player} |->
        IF p = player THEN [role |-> "user", content |-> content] ELSE obs[p]]

HelloReset ==
    /\ env = "hello"
    /\ state' = HelloInitState(config)
    /\ player_observations' = <<>>
    /\ terminated' = FALSE
    /\ truncated' = FALSE
    /\ info' = [message |-> <<"Environment reset">>]
    /\ ready' = TRUE
    /\ accepted' = 0
    /\ last' = ResetCall(accepted)
    /\ UNCHANGED <<gm, env, config, explored, current_player, observations, action_spaces>>

\* variant: the ignored step clears the terminated flag
HelloStepIgnoredReopens(player) ==
    /\ info' = [warning |-> <<"Environment already terminated">>]
    /\ terminated' = FALSE
    /\ last' = Call("step", "ok", "ignored", TRUE, FALSE, 0)
    /\ UNCHANGED <<state, truncated, player_observations, accepted>>

\* step() on an environment that has ended: the action is ignored
HelloStepIgnored(player) ==
    /\ info' = [warning |-> <<"Environment already terminated">>]
    /\ last' = Call("step", "ok", "ignored", TRUE, FALSE, 0)
    /\ UNCHANGED <<state, terminated, truncated, player_observations, accepted>>

HelloStepApplied(player, action) ==
    LET st1 == [state EXCEPT !.current_context = action.text]
        st2 == ValidateGreeting(st1, action.text)
        st3 == [st2 EXCEPT !.round = @ + 1]
        msg == ResultMessage(st3)
    IN  /\ state' = st3
        /\ terminated' = TRUE
        /\ info' = [ message |-> msg, success |-> st3.success, aborted |-> st3.aborted,
                     missing_words |-> st3.missing_words, response_score |-> Reward(st3),
                     response_feedback |-> msg, episode_score |-> Reward(st3) ]
        /\ player_observations' = SetObservationFor(player_observations, player, st3.current_context)
        /\ accepted' = IF st3.aborted THEN accepted ELSE accepted + 1
        /\ last' = [Call("step", "ok", IF st3.aborted THEN "rejected" ELSE "accepted",
                         FALSE, FALSE, Reward(st3))
                        EXCEPT !.bad_type = action.action_type \notin HelloActionTypes]
        /\ UNCHANGED truncated

\* self.truncated does not exist before the first reset(): the call raises
HelloStepRaises ==
    /\ last' = Call("step", "raised", "no_reset", FALSE, FALSE, 0)
    /\ UNCHANGED <<state, terminated, truncated, info, player_observations, accepted>>

HelloStep ==
    /\ env = "hello"
    /\ IF ~ready THEN HelloStepRaises
       ELSE IF terminated \/ truncated
       THEN \E player \in HelloPlayers : HelloStepIgnored(player)
       ELSE \E player \in HelloPlayers, text \in Greetings, t \in HelloActionTypeInputs :
                HelloStepApplied(player, [action_type |-> t, text |-> text])
    /\ UNCHANGED <<gm, env, config, ready, explored, current_player, observations, action_spaces>>

\* observe_for(player): a player without an observation gets a default one,
\* made of the prompt of the state, stored and returned
HelloObserveFor ==
    /\ env = "hello"
    /\ \E player \in HelloObservers :
         IF player \notin DOMAIN player_observations
         THEN /\ player_observations' =
                    SetObservationFor(player_observations, player,
                        IF "prompt" \in DOMAIN state THEN state.prompt
                        ELSE <<"No prompt available.">>)
              /\ last' = Call("observe_for", "ok", "unregistered", FALSE, FALSE, 0)
         ELSE /\ last' = Call("observe_for", "ok", "registered", FALSE, FALSE, 0)
              /\ UNCHANGED player_observations
    /\ UNCHANGED <<gm, env, config, ready, state, terminated, truncated, info, explored,
                   current_player, observations, action_spaces, accepted>>

HelloInit ==
    /\ env = "hello"
    /\ gm = NA
    /\ config \in HelloConfigs
    /\ state = <<>>
    /\ terminated = FALSE
    /\ truncated = NA
    /\ info = NA
    /\ player_observations = <<>>
    /\ action_spaces = HelloSpaces
    /\ observations = HelloSpaces
    /\ explored = NA
    /\ current_player = NA

(***************************************************************************)
(* Environment.step of the grid environments: the order of its checks and  *)
(* what it does around the game-specific hooks.                            *)
(***************************************************************************)
MaxMoves == 6

Range(f) == { f[x] : x \in DOMAIN f }

Top(objects) == objects[Len(objects)]

\* which branch step(player, action) takes
StepBranch(st, spaces, player, action, ok) ==
    IF st.terminated THEN "terminated"
    ELSE IF player \notin DOMAIN spaces THEN "unregistered"
    ELSE IF action.action_type \notin Range(spaces[player]) THEN "invalid_action_type"
    ELSE IF ~ok THEN "rejected"
    ELSE "accepted"

\* soft rejection: the reason becomes the pending warning
RecordWarning(st, reason) == [st EXCEPT !.warning = reason]

\* an accepted action counts as one move
CountMove(st) == [st EXCEPT !.moves = @ + 1]

\* base fields of the state of a grid environment after reset()
BaseState == [success |-> FALSE, terminated |-> FALSE, aborted |-> FALSE,
              moves |-> 0, warning |-> <<>>]

\* the state of a grid environment after construction and after the base reset():
\* the base fields and a grid of empty cells
ConstructedState(cfg) ==
    [ grid |-> [c \in (0..(cfg.height - 1)) \X (0..(cfg.width - 1)) |-> <<>>],
      player_positions |-> <<>>,
      success |-> BaseState.success, terminated |-> BaseState.terminated,
      aborted |-> BaseState.aborted, moves |-> BaseState.moves,
      warning |-> BaseState.warning ]

\* add_object(obj): appended to the list of the cell at obj.position
AddObject(grid, obj) == [grid EXCEPT ![obj.position] = Append(@, obj)]

\* get_objects_at(position)
GetObjectsAt(grid, pos) == grid[pos]

RECURSIVE RemoveFirst(_, _)
RemoveFirst(objects, obj) ==
    IF objects = <<>> THEN <<>>
    ELSE IF Head(objects) = obj THEN Tail(objects)
    ELSE <<Head(objects)>> \o RemoveFirst(Tail(objects), obj)

\* variant: remove_object deletes nothing
RemoveObjectKeeps(grid, obj) == grid

\* remove_object(obj): deleted from the list of the cell at obj.position
RemoveObject(grid, obj) == [grid EXCEPT ![obj.position] = RemoveFirst(@, obj)]

\* render_state() without fog of war: the glyph of the top object of each cell
RenderBoard(grid) ==
    [c \in DOMAIN grid |-> IF grid[c] = <<>> THEN "empty" ELSE Top(grid[c]).symbol]

\* _create_observation(text_content, rendered_state)
CreateObservation(text_content, rendered_state) ==
    [role |-> "user", content |-> text_content, grid |-> rendered_state]

StepRaises(branch) ==
    /\ last' = [Call("step", "raised", branch, state.terminated, FALSE, 0)
                    EXCEPT !.bad_type = (branch = "invalid_action_type")]
    /\ UNCHANGED <<state, explored, current_player, observations, action_spaces, accepted>>

(***************************************************************************)
(* PortalGameEnvironment                                                   *)
(***************************************************************************)
PortalPlayers == <<"Player 1">>

Directions == {"n", "s", "e", "w", "x"}

PortalActions == { [action_type |-> t, direction |-> d] :
                      t \in {"move", "jump"}, d \in Directions }

\* 3x3 layouts: start (0,0), switch (0,1), door (1,1), portal (2,1).
\*   S w .      the door is the only way to the portal in the first layout;
\*   # D x      in the second the right column is open down to the bottom row
\*   # O x
GridLayouts ==
    { [walls |-> <<<<1,0>>, <<2,0>>, <<1,2>>, <<2,2>>>>, portal |-> <<2,1>>,
       switch |-> <<0,1>>, door |-> <<1,1>>, player_start |-> <<0,0>>],
      [walls |-> <<<<1,0>>, <<2,0>>>>, portal |-> <<2,1>>,
       switch |-> <<0,1>>, door |-> <<1,1>>, player_start |-> <<0,0>>] }

PortalConfigs == { [grid |-> g, height |-> 3, width |-> 3, max_moves |-> MaxMoves,
                    prompt |-> sPrompt] : g \in GridLayouts }

Cells(cfg) == (0..(cfg.height - 1)) \X (0..(cfg.width - 1))

Wall(pos)   == [type |-> "wall", position |-> pos]
Portal(pos) == [type |-> "portal", position |-> pos]
Door(pos)   == [type |-> "door", position |-> pos, is_open |-> FALSE]
Switch(pos) == [type |-> "switch", position |-> pos, activated |-> FALSE]
PlayerObject(pos, player) == [type |-> "player", position |-> pos, player |-> player]

IsInstance(obj, type) == obj.type = type

ToggleState(door) == [door EXCEPT !.is_open = ~@]

AppendAt(grid, pos, obj) == [grid EXCEPT ![pos] = Append(@, obj)]

RECURSIVE AddWalls(_, _)
AddWalls(grid, walls) ==
    IF walls = <<>> THEN grid
    ELSE AddWalls(AppendAt(grid, Head(walls), Wall(Head(walls))), Tail(walls))

ConstructGrid(cfg, player) ==
    LET g0 == [c \in Cells(cfg) |-> <<>>]
        g1 == AddWalls(g0, cfg.grid.walls)
        g2 == AppendAt(g1, cfg.grid.portal, Portal(cfg.grid.portal))
        g3 == AppendAt(g2, cfg.grid.switch, Switch(cfg.grid.switch))
        g4 == AppendAt(g3, cfg.grid.door, Door(cfg.grid.door))
    IN  AppendAt(g4, cfg.grid.player_start, PlayerObject(cfg.grid.player_start, player))

\* variant: the mask holds the neighbourhood of the present cell only
MarkExploredForgets(cfg, mask, player_name, pos) ==
    [mask EXCEPT ![player_name] =
        [c \in Cells(cfg) |->
            /\ pos[1] - 1 <= c[1] /\ c[1] <= pos[1] + 1
            /\ pos[2] - 1 <= c[2] /\ c[2] <= pos[2] + 1]]

\* variant: the cell and its four edge neighbours are marked, not the corners
MarkExploredCross(cfg, mask, player_name, pos) ==
    [mask EXCEPT ![player_name] =
        [c \in Cells(cfg) |->
            IF \/ (c[1] = pos[1] /\ pos[2] - 1 <= c[2] /\ c[2] <= pos[2] + 1)
               \/ (c[2] = pos[2] /\ pos[1] - 1 <= c[1] /\ c[1] <= pos[1] + 1)
            THEN TRUE ELSE @[c]]]

MarkExplored(cfg, mask, player_name, pos) ==
    [mask EXCEPT ![player_name] =
        [c \in Cells(cfg) |->
            IF /\ pos[1] - 1 <= c[1] /\ c[1] <= pos[1] + 1
               /\ pos[2] - 1 <= c[2] /\ c[2] <= pos[2] + 1
            THEN TRUE ELSE @[c]]]

\* text rendering of the grid as the player sees it: one glyph per cell
RenderState(cfg, grid, mask) ==
    [c \in Cells(cfg) |->
        IF ~mask[c] THEN "unexplored"
        ELSE IF grid[c] = <<>> THEN "empty" ELSE Top(grid[c]).type]

NewPos(pos, direction) ==
    CASE direction = "n" -> <<pos[1] - 1, pos[2]>>
      [] direction = "s" -> <<pos[1] + 1, pos[2]>>
      [] direction = "e" -> <<pos[1], pos[2] + 1>>
      [] direction = "w" -> <<pos[1], pos[2] - 1>>
      [] OTHER -> pos

\* variant: the closed-door check is left out
PortalIsActionValidInStateIgnoresDoor(cfg, st, player, action) ==
    LET direction == action.direction
        new_pos   == NewPos(st.player_positions[player], direction)
    IN  IF direction \notin {"n", "s", "e", "w"} THEN <<FALSE, <<"Invalid direction", direction>>>>
        ELSE IF new_pos \notin Cells(cfg) THEN <<FALSE, <<"outside the grid", new_pos>>>>
        ELSE LET objects == st.grid[new_pos] IN
             IF objects # <<>> /\ IsInstance(Top(objects), "wall")
             THEN <<FALSE, <<"is a wall", new_pos>>>>
             ELSE <<TRUE, "">>

PortalIsActionValidInState(cfg, st, player, action) ==
    LET direction == action.direction
        new_pos   == NewPos(st.player_positions[player], direction)
    IN  IF direction \notin {"n", "s", "e", "w"} THEN <<FALSE, <<"Invalid direction", direction>>>>
        ELSE IF new_pos \notin Cells(cfg) THEN <<FALSE, <<"outside the grid", new_pos>>>>
        ELSE LET objects == st.grid[new_pos] IN
             IF objects # <<>> /\ IsInstance(Top(objects), "wall")
             THEN <<FALSE, <<"is a wall", new_pos>>>>
             ELSE IF objects # <<>> /\ IsInstance(Top(objects), "door") /\ ~Top(objects).is_open
             THEN <<FALSE, <<"is a closed door", new_pos>>>>
             ELSE <<TRUE, "">>

\* the row-major sequence of the cells of the grid
RowMajor(cfg) ==
    [k \in 1..(cfg.height * cfg.width) |-> <<(k - 1) \div cfg.width, (k - 1) % cfg.width>>]

\* for row in grid: for cell in row: if isinstance(cell["objects"][-1], Door): toggle
\* reading the top of an empty cell raises IndexError and ends the loop
RECURSIVE ToggleDoors(_, _)
ToggleDoors(grid, cells) ==
    IF cells = <<>> THEN [grid |-> grid, raised |-> FALSE]
    ELSE LET c == Head(cells) IN
         IF grid[c] = <<>> THEN [grid |-> grid, raised |-> TRUE]
         ELSE IF IsInstance(Top(grid[c]), "door")
         THEN ToggleDoors([grid EXCEPT ![c][Len(grid[c])] = ToggleState(@)], Tail(cells))
         ELSE ToggleDoors(grid, Tail(cells))

\* variant: the update routine counts the move itself
PortalUpdateStateThroughActionCountsMove(cfg, st, mask, player, action) ==
    LET pos           == st.player_positions[player]
        player_object == Top(st.grid[pos])
        g1            == [st.grid EXCEPT ![pos] = SubSeq(@, 1, Len(@) - 1)]
        new_pos       == NewPos(pos, action.direction)
        g2            == AppendAt(g1, new_pos, player_object)
        mask2         == MarkExplored(cfg, mask, player, new_pos)
        st2           == [st EXCEPT !.grid = g2, !.player_positions[player] = new_pos,
                                   !.moves = @ + 1]
        new_top       == Top(g2[new_pos])
    IN  IF IsInstance(new_top, "portal")
        THEN [state |-> [st2 EXCEPT !.terminated = TRUE, !.success = TRUE, !.aborted = FALSE],
              explored |-> mask2, raised |-> FALSE]
        ELSE LET st3 == [st2 EXCEPT !.aborted = FALSE, !.terminated = FALSE, !.success = TRUE]
             IN  IF IsInstance(new_top, "switch")
                 THEN LET g3 == [g2 EXCEPT ![new_pos][Len(g2[new_pos])].activated = ~@]
                          t  == ToggleDoors(g3, RowMajor(cfg))
                      IN  [state |-> [st3 EXCEPT !.grid = t.grid], explored |-> mask2,
                           raised |-> t.raised]
                 ELSE [state |-> st3, explored |-> mask2, raised |-> FALSE]

PortalUpdateStateThroughAction(cfg, st, mask, player, action) ==
    LET pos           == st.player_positions[player]
        player_object == Top(st.grid[pos])
        g1            == [st.grid EXCEPT ![pos] = SubSeq(@, 1, Len(@) - 1)]
        new_pos       == NewPos(pos, action.direction)
        g2            == AppendAt(g1, new_pos, player_object)
        mask2         == MarkExplored(cfg, mask, player, new_pos)
        st2           == [st EXCEPT !.grid = g2, !.player_positions[player] = new_pos]
        new_top       == Top(g2[new_pos])
    IN  IF IsInstance(new_top, "portal")
        THEN [state |-> [st2 EXCEPT !.terminated = TRUE, !.success = TRUE, !.aborted = FALSE],
              explored |-> mask2, raised |-> FALSE]
        ELSE LET st3 == [st2 EXCEPT !.aborted = FALSE, !.terminated = FALSE, !.success = TRUE]
             IN  IF IsInstance(new_top, "switch")
                 THEN LET g3 == [g2 EXCEPT ![new_pos][Len(g2[new_pos])].activated = ~@]
                          t  == ToggleDoors(g3, RowMajor(cfg))
                      IN  [state |-> [st3 EXCEPT !.grid = t.grid], explored |-> mask2,
                           raised |-> t.raised]
                 ELSE [state |-> st3, explored |-> mask2, raised |-> FALSE]

\* the value update_observations reads for an object type: that of the last
\* cell in row-major order whose top object has the type, None if there is none
TopStates(cfg, grid, type, field) ==
    LET hits == SelectSeq(RowMajor(cfg),
                          LAMBDA c : grid[c] # <<>> /\ IsInstance(Top(grid[c]), type))
    IN  IF hits = <<>> THEN "None" ELSE Top(grid[hits[Len(hits)]])[field]

PortalObservation(cfg, st, mask, player) ==
    [ role    |-> "user",
      content |-> [ warning  |-> st.warning,
                    position |-> st.player_positions[player],
                    switch   |-> TopStates(cfg, st.grid, "switch", "activated"),
                    door     |-> TopStates(cfg, st.grid, "door", "is_open"),
                    grid     |-> RenderState(cfg, st.grid, mask[player]) ] ]

PortalInitialObservation(cfg, st, mask, player) ==
    [ role    |-> "user",
      content |-> [ base_prompt |-> cfg.prompt,
                    grid        |-> RenderState(cfg, st.grid, mask[player]) ] ]

\* update_observations(): every player's observation, then the warning is cleared
PortalUpdateObservations(cfg, st, mask) ==
    [ observations |-> [p \in Range(PortalPlayers) |-> PortalObservation(cfg, st, mask, p)],
      state        |-> [st EXCEPT !.warning = <<>>] ]

PortalResetState(cfg) ==
    [ grid             |-> ConstructGrid(cfg, PortalPlayers[1]),
      player_positions |-> [p \in {PortalPlayers[1]} |-> cfg.grid.player_start],
      success |-> FALSE, terminated |-> FALSE, aborted |-> FALSE, moves |-> 0,
      warning |-> <<>> ]

PortalReset ==
    /\ env = "portal"
    /\ LET st   == PortalResetState(config)
           none == [p \in Range(PortalPlayers) |-> [c \in Cells(config) |-> FALSE]]
           mask == MarkExplored(config, none, PortalPlayers[1],
                                st.player_positions[PortalPlayers[1]])
       IN  /\ state' = st
           /\ explored' = mask
           /\ observations' = [p \in {PortalPlayers[1]} |->
                                  PortalInitialObservation(config, st, mask, p)]
           /\ action_spaces' = [p \in {PortalPlayers[1]} |-> <<"move">>]
    /\ ready' = TRUE
    /\ accepted' = 0
    /\ last' = ResetCall(accepted)
    /\ UNCHANGED <<gm, env, config, terminated, truncated, info, player_observations, current_player>>

PortalStepRejected(player, reason) ==
    LET u == PortalUpdateObservations(config, RecordWarning(state, reason), explored)
    IN  /\ state' = u.state
        /\ observations' = u.observations
        /\ last' = Call("step", "ok", "rejected", FALSE, FALSE, 0)
        /\ UNCHANGED <<explored, current_player, action_spaces, accepted>>

PortalStepAccepted(player, action) ==
    LET r == PortalUpdateStateThroughAction(config, state, explored, player, action)
        u == PortalUpdateObservations(config, CountMove(r.state), r.explored)
    IN  /\ state.moves < MaxMoves
        /\ IF r.raised
           THEN /\ state' = r.state
                /\ explored' = r.explored
                /\ last' = Call("step", "raised", "IndexError", FALSE, FALSE, 0)
                /\ UNCHANGED <<observations, accepted>>
           ELSE /\ state' = u.state
                /\ explored' = r.explored
                /\ observations' = u.observations
                /\ accepted' = accepted + 1
                /\ last' = Call("step", "ok", "accepted", FALSE, FALSE, 0)
        /\ UNCHANGED <<current_player, action_spaces>>

PortalStep ==
    /\ env = "portal"
    /\ \E player \in Range(PortalPlayers), action \in PortalActions :
        LET v      == PortalIsActionValidInState(config, state, player, action)
            branch == StepBranch(state, action_spaces, player, action, v[1])
        IN  CASE branch = "accepted" -> PortalStepAccepted(player, action)
              [] branch = "rejected" -> PortalStepRejected(player, v[2])
              [] OTHER -> StepRaises(branch)
    /\ UNCHANGED <<gm, env, config, ready, terminated, truncated, info, player_observations>>

PortalInit ==
    /\ env = "portal"
    /\ gm = NA
    /\ config \in PortalConfigs
    /\ state = ConstructedState(config)
    /\ explored = <<>>
    /\ observations = <<>>
    /\ action_spaces = <<>>
    /\ terminated = NA
    /\ truncated = NA
    /\ info = NA
    /\ player_observations = NA
    /\ current_player = NA

(***************************************************************************)
(* TicTacToeEnvironment                                                    *)
(***************************************************************************)
TTTPlayers == <<"Player 1", "Player 2">>

\* player.symbol, assigned in add order
PlayerSymbol(player) == IF player = TTTPlayers[1] THEN "X" ELSE "O"

GlyphX == "[X]"
GlyphO == "[O]"
GlyphEmpty == "[ ]"

TTTConfig == [height |-> 3, width |-> 3, prompt |-> sPrompt]

\* the cells of the board, and two positions outside it
TTTPositions == ((0..2) \X (0..2)) \cup {<<3, 0>>, <<0, -1>>}

\* an action without a row or a col key stands for action.get(...) returning None
TTTActions ==
    { [action_type |-> "make_move", row |-> p[1], col |-> p[2]] : p \in TTTPositions }
    \cup { [action_type |-> "other", row |-> 0, col |-> 0],
           [action_type |-> "make_move", row |-> 0],
           [action_type |-> "make_move", col |-> 0] }

TicTacToeCell(position, value) ==
    [ type     |-> <<"cell", position[1], position[2]>>,
      position |-> position,
      symbol   |-> IF value = "X" THEN GlyphX ELSE IF value = "O" THEN GlyphO ELSE GlyphEmpty ]

RECURSIVE AddCells(_, _)
AddCells(grid, cells) ==
    IF cells = <<>> THEN grid
    ELSE AddCells(AddObject(grid, TicTacToeCell(Head(cells), "")), Tail(cells))

TTTInitializeGrid(grid) == AddCells(grid, RowMajor(TTTConfig))

TTTGetBoardFromGrid(grid) ==
    [c \in Cells(TTTConfig) |->
        IF GetObjectsAt(grid, c) # <<>> THEN GetObjectsAt(grid, c)[1].symbol ELSE " "]

TTTIsActionValidInState(st, player, action) ==
    IF "row" \notin DOMAIN action \/ "col" \notin DOMAIN action
    THEN <<FALSE, <<"Missing row or col in action">>>>
    ELSE IF ~(0 <= action.row /\ action.row < 3 /\ 0 <= action.col /\ action.col < 3)
    THEN <<FALSE, <<"out of bounds">>>>
    ELSE IF TTTGetBoardFromGrid(st.grid)[<<action.row, action.col>>] # GlyphEmpty
    THEN <<FALSE, <<"already occupied">>>>
    ELSE <<TRUE, "">>

Line(board, cells, glyph) == \A c \in cells : board[c] = glyph

Row(i) == { <<i, j>> : j \in 0..2 }
Col(i) == { <<j, i>> : j \in 0..2 }
Diag == { <<i, i>> : i \in 0..2 }
AntiDiag == { <<i, 2 - i>> : i \in 0..2 }

RowOrColWin(board, i) ==
    \/ Line(board, Row(i), GlyphX) \/ Line(board, Col(i), GlyphX)
    \/ Line(board, Row(i), GlyphO) \/ Line(board, Col(i), GlyphO)

DiagWin(board) ==
    \/ Line(board, Diag, GlyphX) \/ Line(board, AntiDiag, GlyphX)
    \/ Line(board, Diag, GlyphO) \/ Line(board, AntiDiag, GlyphO)

\* variant: the anti-diagonal is not looked at
CheckGameStateNoAntiDiagonal(st) ==
    LET board == TTTGetBoardFromGrid(st.grid)
        st0   == [st EXCEPT !.success = TRUE, !.aborted = FALSE, !.terminated = FALSE]
    IN  IF \E i \in 0..2 : RowOrColWin(board, i)
        THEN [st0 EXCEPT !.terminated = TRUE, !.success = TRUE]
        ELSE IF Line(board, Diag, GlyphX) \/ Line(board, Diag, GlyphO)
        THEN [st0 EXCEPT !.terminated = TRUE, !.success = TRUE]
        ELSE IF \A c \in Cells(TTTConfig) : board[c] # GlyphEmpty
        THEN [st0 EXCEPT !.terminated = TRUE, !.success = FALSE]
        ELSE st0

CheckGameState(st) ==
    LET board == TTTGetBoardFromGrid(st.grid)
        st0   == [st EXCEPT !.success = TRUE, !.aborted = FALSE, !.terminated = FALSE]
    IN  IF \E i \in 0..2 : RowOrColWin(board, i)
        THEN [st0 EXCEPT !.terminated = TRUE, !.success = TRUE]
        ELSE IF DiagWin(board)
        THEN [st0 EXCEPT !.terminated = TRUE, !.success = TRUE]
        ELSE IF \A c \in Cells(TTTConfig) : board[c] # GlyphEmpty
        THEN [st0 EXCEPT !.terminated = TRUE, !.success = FALSE]
        ELSE st0

\* board[i] on a list of three: -3..2 index it (a negative index counts from
\* the end), any other integer raises IndexError
PyIndex(i) == IF i < 0 THEN i + 3 ELSE i

\* is_valid_move(row, col) for integers row and col (None returns False before
\* anything is read): the cell is read before the range is looked at, and
\* compared with " ", the filler _get_board_from_grid uses for a cell without
\* an object
IsValidMove(grid, row, col) ==
    IF row \notin -3..2 \/ col \notin -3..2 THEN [raised |-> TRUE, value |-> FALSE]
    ELSE LET row_is_valid  == 0 <= row /\ row < 3
             col_is_valid  == 0 <= col /\ col < 3
             board         == TTTGetBoardFromGrid(grid)
             cell_is_empty == board[<<PyIndex(row), PyIndex(col)>>] = " "
         IN  [raised |-> FALSE, value |-> row_is_valid /\ col_is_valid /\ cell_is_empty]

\* the text of one player's observation; update_observations() builds it as
\*   (prompt + symbol line) if moves < 2 else ("" + warning line + "The board is:")
TTTTextContent(st, player) ==
    IF st.moves < 2
    THEN [prompt |-> TTTConfig.prompt, symbol |-> PlayerSymbol(player)]
    ELSE [warning |-> st.warning, board_header |-> TRUE]

\* update_observations(): players in order; the warning is cleared inside the loop
RECURSIVE TTTUpdateObservations(_, _, _)
TTTUpdateObservations(st, obs, players) ==
    IF players = <<>> THEN [state |-> st, observations |-> obs]
    ELSE LET player == Head(players)
             o      == CreateObservation(TTTTextContent(st, player), RenderBoard(st.grid))
             obs2   == [p \in (DOMAIN obs) \cup {player} |-> IF p = player THEN o ELSE obs[p]]
         IN  TTTUpdateObservations([st EXCEPT !.warning = <<>>], obs2, Tail(players))

\* variant: current_player is not flipped
TTTUpdateStateThroughActionKeepsPlayer(st, cur, player, action) ==
    LET pos      == <<action.row, action.col>>
        objects  == GetObjectsAt(st.grid, pos)
        g1       == IF objects # <<>> THEN RemoveObject(st.grid, objects[1]) ELSE st.grid
        symbol   == IF cur = 1 THEN "X" ELSE "O"
        g2       == AddObject(g1, TicTacToeCell(pos, symbol))
    IN  [ state          |-> CheckGameState([st EXCEPT !.grid = g2]),
          current_player |-> cur ]

TTTUpdateStateThroughAction(st, cur, player, action) ==
    LET pos      == <<action.row, action.col>>
        objects  == GetObjectsAt(st.grid, pos)
        g1       == IF objects # <<>> THEN RemoveObject(st.grid, objects[1]) ELSE st.grid
        symbol   == IF cur = 1 THEN "X" ELSE "O"
        g2       == AddObject(g1, TicTacToeCell(pos, symbol))
    IN  [ state          |-> CheckGameState([st EXCEPT !.grid = g2]),
          current_player |-> IF cur = 2 THEN 1 ELSE 2 ]

\* variant: reset() leaves current_player as it is
TTTResetKeepsCurrentPlayer ==
    /\ env = "ttt"
    /\ LET st0 == ConstructedState(config)
           st1 == [st0 EXCEPT !.grid = TTTInitializeGrid(@)]
           u   == TTTUpdateObservations(st1, observations, TTTPlayers)
       IN  /\ state' = u.state
           /\ observations' = u.observations
    /\ action_spaces' = [p \in Range(TTTPlayers) |-> <<"make_move">>]
    /\ ready' = TRUE
    /\ accepted' = 0
    /\ last' = ResetCall(accepted)
    /\ UNCHANGED <<gm, env, config, terminated, truncated, info, player_observations, explored,
                   current_player>>

TTTReset ==
    /\ env = "ttt"
    /\ LET st0 == ConstructedState(config)
           st1 == [st0 EXCEPT !.grid = TTTInitializeGrid(@)]
           u   == TTTUpdateObservations(st1, observations, TTTPlayers)
       IN  /\ state' = u.state
           /\ observations' = u.observations
    /\ current_player' = 1
    /\ action_spaces' = [p \in Range(TTTPlayers) |-> <<"make_move">>]
    /\ ready' = TRUE
    /\ accepted' = 0
    /\ last' = ResetCall(accepted)
    /\ UNCHANGED <<gm, env, config, terminated, truncated, info, player_observations, explored>>

TTTStepRejected(player, reason) ==
    LET u == TTTUpdateObservations(RecordWarning(state, reason), observations, TTTPlayers)
    IN  /\ state' = u.state
        /\ observations' = u.observations
        /\ last' = Call("step", "ok", "rejected", FALSE, FALSE, 0)
        /\ UNCHANGED <<explored, current_player, action_spaces, accepted>>

TTTStepAccepted(player, action) ==
    LET r == TTTUpdateStateThroughAction(state, current_player, player, action)
        u == TTTUpdateObservations(CountMove(r.state), observations, TTTPlayers)
    IN  /\ state' = u.state
        /\ current_player' = r.current_player
        /\ observations' = u.observations
        /\ accepted' = accepted + 1
        /\ last' = Call("step", "ok", "accepted", FALSE, FALSE, 0)
        /\ UNCHANGED <<explored, action_spaces>>

TTTStep ==
    /\ env = "ttt"
    /\ \E player \in Range(TTTPlayers), action \in TTTActions :
        LET v      == TTTIsActionValidInState(state, player, action)
            branch == StepBranch(state, action_spaces, player, action, v[1])
        IN  CASE branch = "accepted" -> TTTStepAccepted(player, action)
              [] branch = "rejected" -> TTTStepRejected(player, v[2])
              [] OTHER -> StepRaises(branch)
    /\ UNCHANGED <<gm, env, config, ready, terminated, truncated, info, player_observations>>

\* after __init__: the base state, a grid of nine blank cells, X to move
TTTInit ==
    /\ env = "ttt"
    /\ gm = NA
    /\ config = TTTConfig
    /\ state = [ConstructedState(TTTConfig) EXCEPT !.grid = TTTInitializeGrid(@)]
    /\ current_player = 1
    /\ observations = <<>>
    /\ action_spaces = <<>>
    /\ explored = NA
    /\ terminated = NA
    /\ truncated = NA
    /\ info = NA
    /\ player_observations = NA

(***************************************************************************)
(* SudokuEnvironment (sudokugame)                                          *)
(***************************************************************************)
SudokuPlayers == <<"Player 1">>

SudokuBlanks == 4

SudokuConfig == [height |-> 9, width |-> 9, difficulty |-> SudokuBlanks, prompt |-> sPrompt]

\* a solved grid, and the cells the puzzle leaves empty
Solution(pos) == ((3 * (pos[1] % 3) + (pos[1] \div 3) + pos[2]) % 9) + 1

BlankList == << <<0, 0>>, <<4, 4>>, <<8, 8>>, <<2, 6>>, <<6, 2>>, <<1, 7>> >>

BlankCells == { BlankList[k] : k \in 1..SudokuBlanks }

\* self.original_grid
OriginalGrid == [c \in Cells(SudokuConfig) |-> IF c \in BlankCells THEN 0 ELSE Solution(c)]

SudokuActions ==
    { [action_type |-> "fill_cell", row |-> c[1], col |-> c[2], value |-> v] :
          c \in BlankCells \cup {<<0, 1>>}, v \in 1..9 }
    \cup { [action_type |-> "other", row |-> 0, col |-> 0, value |-> 1],
           [action_type |-> "fill_cell", row |-> 0, col |-> 0],
           [action_type |-> "fill_cell", row |-> 9, col |-> 0, value |-> 1] }

\* symbol = str(value)
SudokuObject(position, value) ==
    [ type     |-> <<"cell", position[1], position[2]>>,
      position |-> position,
      symbol   |-> <<"str", value>> ]

\* int(object.symbol)
IntOfSymbol(symbol) == symbol[2]

\* _initialize_grid(): one add_object per cell, each cell visited once
SudokuInitializeGrid(grid) ==
    [c \in DOMAIN grid |-> AddObject(grid, SudokuObject(c, OriginalGrid[c]))[c]]

SudokuGetBoardFromGrid(grid) ==
    [c \in Cells(SudokuConfig) |->
        IF GetObjectsAt(grid, c) # <<>> THEN IntOfSymbol(GetObjectsAt(grid, c)[1].symbol) ELSE 0]

\* grid[row][col] on a list of nine lists of nine: an index past the end raises
\* IndexError (a negative one counts from the end)
IsGridValidRaises(action) ==
    /\ {"row", "col", "value"} \subseteq DOMAIN action
    /\ (action.row > 8 \/ action.col > 8)

IsGridValid(board, row, col, value) ==
    IF board[<<row, col>>] # 0 THEN FALSE
    ELSE IF (\E j \in 0..8 : board[<<row, j>>] = value) \/ (\E i \in 0..8 : board[<<i, col>>] = value)
    THEN FALSE
    ELSE LET block_row == (row \div 3) * 3
             block_col == (col \div 3) * 3
         IN  ~(\E i \in block_row..(block_row + 2), j \in block_col..(block_col + 2) :
                  board[<<i, j>>] = value)

IsGridSolved(board) ==
    IF \E c \in Cells(SudokuConfig) : board[c] = 0 THEN FALSE
    ELSE \A c \in Cells(SudokuConfig) : IsGridValid(board, c[1], c[2], board[c])

SudokuIsActionValidInState(st, player, action) ==
    IF "row" \notin DOMAIN action \/ "col" \notin DOMAIN action \/ "value" \notin DOMAIN action
    THEN <<FALSE, <<"Missing row, col, or value in action">>>>
    ELSE IF IsGridValid(SudokuGetBoardFromGrid(st.grid), action.row, action.col, action.value)
    THEN <<TRUE, "">>
    ELSE <<FALSE, <<"Invalid move">>>>

\* variant: row and col are taken the other way round
SudokuUpdateStateThroughActionTransposed(st, player, action) ==
    LET pos     == <<action.col, action.row>>
        objects == GetObjectsAt(st.grid, pos)
        g1      == IF objects # <<>> THEN RemoveObject(st.grid, objects[1]) ELSE st.grid
        g2      == AddObject(g1, SudokuObject(pos, action.value))
    IN  IF IsGridSolved(SudokuGetBoardFromGrid(g2))
        THEN [st EXCEPT !.grid = g2, !.terminated = TRUE, !.success = TRUE, !.aborted = FALSE]
        ELSE [st EXCEPT !.grid = g2, !.terminated = FALSE, !.success = FALSE, !.aborted = FALSE]

SudokuUpdateStateThroughAction(st, player, action) ==
    LET pos     == <<action.row, action.col>>
        objects == GetObjectsAt(st.grid, pos)
        g1      == IF objects # <<>> THEN RemoveObject(st.grid, objects[1]) ELSE st.grid
        g2      == AddObject(g1, SudokuObject(pos, action.value))
    IN  IF IsGridSolved(SudokuGetBoardFromGrid(g2))
        THEN [st EXCEPT !.grid = g2, !.terminated = TRUE, !.success = TRUE, !.aborted = FALSE]
        ELSE [st EXCEPT !.grid = g2, !.terminated = FALSE, !.success = FALSE, !.aborted = FALSE]

\*   (prompt) if moves == 0 else ("" + warning line + "The board is:")
SudokuTextContent(st) ==
    IF st.moves = 0
    THEN [prompt |-> SudokuConfig.prompt]
    ELSE [warning |-> st.warning, board_header |-> TRUE]

RECURSIVE SudokuUpdateObservations(_, _, _)
SudokuUpdateObservations(st, obs, players) ==
    IF players = <<>> THEN [state |-> st, observations |-> obs]
    ELSE LET player == Head(players)
             o      == CreateObservation(SudokuTextContent(st), SudokuGetBoardFromGrid(st.grid))
             obs2   == [p \in (DOMAIN obs) \cup {player} |-> IF p = player THEN o ELSE obs[p]]
         IN  SudokuUpdateObservations([st EXCEPT !.warning = <<>>], obs2, Tail(players))

\* variant: reset() fills the grid it finds instead of a new one
SudokuResetKeepsGrid ==
    /\ env = "sudoku"
    /\ LET st0 == [ConstructedState(config) EXCEPT !.grid = state.grid]
           st1 == [st0 EXCEPT !.grid = SudokuInitializeGrid(@)]
           u   == SudokuUpdateObservations(st1, observations, SudokuPlayers)
       IN  /\ state' = u.state
           /\ observations' = u.observations
    /\ action_spaces' = [p \in Range(SudokuPlayers) |-> <<"fill_cell">>]
    /\ ready' = TRUE
    /\ accepted' = 0
    /\ last' = ResetCall(accepted)
    /\ UNCHANGED <<gm, env, config, terminated, truncated, info, player_observations, explored,
                   current_player>>

SudokuReset ==
    /\ env = "sudoku"
    /\ LET st0 == ConstructedState(config)
           st1 == [st0 EXCEPT !.grid = SudokuInitializeGrid(@)]
           u   == SudokuUpdateObservations(st1, observations, SudokuPlayers)
       IN  /\ state' = u.state
           /\ observations' = u.observations
    /\ action_spaces' = [p \in Range(SudokuPlayers) |-> <<"fill_cell">>]
    /\ ready' = TRUE
    /\ accepted' = 0
    /\ last' = ResetCall(accepted)
    /\ UNCHANGED <<gm, env, config, terminated, truncated, info, player_observations, explored,
                   current_player>>

SudokuStepRejected(player, reason) ==
    LET u == SudokuUpdateObservations(RecordWarning(state, reason), observations, SudokuPlayers)
    IN  /\ state' = u.state
        /\ observations' = u.observations
        /\ last' = Call("step", "ok", "rejected", FALSE, FALSE, 0)
        /\ UNCHANGED <<explored, current_player, action_spaces, accepted>>

SudokuStepAccepted(player, action) ==
    LET r == SudokuUpdateStateThroughAction(state, player, action)
        u == SudokuUpdateObservations(CountMove(r), observations, SudokuPlayers)
    IN  /\ state' = u.state
        /\ observations' = u.observations
        /\ accepted' = accepted + 1
        /\ last' = Call("step", "ok", "accepted", FALSE, FALSE, 0)
        /\ UNCHANGED <<explored, current_player, action_spaces>>

SudokuStep ==
    /\ env = "sudoku"
    /\ \E player \in Range(SudokuPlayers), action \in SudokuActions :
        LET boom   == IsGridValidRaises(action)
            v      == IF boom THEN <<FALSE, "">>
                      ELSE SudokuIsActionValidInState(state, player, action)
            branch == StepBranch(state, action_spaces, player, action, v[1])
        IN  CASE branch = "accepted" -> SudokuStepAccepted(player, action)
              [] branch = "rejected" /\ boom -> StepRaises("out_of_bounds")
              [] branch = "rejected" /\ ~boom -> SudokuStepRejected(player, v[2])
              [] OTHER -> StepRaises(branch)
    /\ UNCHANGED <<gm, env, config, ready, terminated, truncated, info, player_observations>>

\* after __init__: the base state and a grid holding the puzzle
SudokuInit ==
    /\ env = "sudoku"
    /\ gm = NA
    /\ config = SudokuConfig
    /\ state = [ConstructedState(SudokuConfig) EXCEPT !.grid = SudokuInitializeGrid(@)]
    /\ observations = <<>>
    /\ action_spaces = <<>>
    /\ current_player = NA
    /\ explored = NA
    /\ terminated = NA
    /\ truncated = NA
    /\ info = NA
    /\ player_observations = NA

(***************************************************************************)
(* DialogueGameMaster: setup() and the play loop.  The environment it      *)
(* drives is seen through what step() returns; the players' responses and  *)
(* the results of the steps are inputs.                                    *)
(***************************************************************************)
MaxPlayers == 3
MaxTurns == 8

\* what a step of the environment returns to the loop: terminated, truncated
\* and the aborted flag of the state (a hard rejection ends the episode)
StepResults ==
    { r \in [terminated : BOOLEAN, truncated : BOOLEAN, aborted : BOOLEAN] :
        r.aborted => r.terminated }

\* a raw response passes _validate_player_response or fails it
Responses == {"valid", "invalid"}

\* after __init__: no players, no current player, round 0; the other fields
\* count the hook calls and the steps of the episode
GMConstructed ==
    [ pc |-> "constructed", players |-> 0, has_current_player |-> FALSE,
      current_player_idx |-> 0, current_round |-> 0,
      before_round |-> 0, after_round |-> 0, after_game |-> 0, episode_score |-> 0,
      turns |-> 0, passes |-> 0, last_idx |-> NA, prompted_idx |-> NA,
      env_terminated |-> FALSE, env_aborted |-> FALSE,
      stepped_after_terminated |-> FALSE, invalid_response |-> FALSE ]

\* _does_game_proceed: not self.game_environment.is_terminal()
DoesGameProceed(g) == ~g.env_terminated

\* _should_pass_turn: the default passes the turn
ShouldPassTurn == TRUE

\* variant: the turn goes to the player after the next
NextPlayerSkipsOne(idx, n) == (idx + 2) % n

\* _next_player: the next index in the order of adding, wrapping to the first
NextPlayer(idx, n) == (idx + 1) % n

\* variant: every pass of the turn starts a round
StartNextRoundAlways(idx) == TRUE

\* _start_next_round: the turn is again the first player's
StartNextRound(idx) == idx = 0

\* done = terminated or truncated or not self._does_game_proceed()
Done(r, proceed) == r.terminated \/ r.truncated \/ ~proceed

\* variant: the loop goes on whatever done is
LoopContinuesAlways(done) == TRUE

\* while not done
LoopContinues(done) == ~done

\* setup(): _on_setup adds the players, the first becomes the current player,
\* _on_before_game resets the environment, then _on_before_round runs;
\* with no player added _on_before_game raises
GMSetup ==
    /\ env = "play" /\ gm.pc = "constructed"
    /\ \E n \in 0..MaxPlayers :
        IF n = 0
        THEN gm' = [gm EXCEPT !.pc = "raised"]
        ELSE gm' = [gm EXCEPT !.pc = "setup", !.players = n, !.has_current_player = TRUE,
                              !.current_player_idx = 0, !.before_round = @ + 1]
    /\ UNCHANGED <<env, config, ready, state, terminated, truncated, info,
                   player_observations, explored, current_player, observations,
                   action_spaces, last, accepted>>

\* play() without a current player: a warning, and it returns
GMPlayWithoutPlayer ==
    /\ env = "play" /\ gm.pc = "constructed"
    /\ gm' = [gm EXCEPT !.pc = "returned"]
    /\ UNCHANGED <<env, config, ready, state, terminated, truncated, info,
                   player_observations, explored, current_player, observations,
                   action_spaces, last, accepted>>

\* the response fails the format validation: done = not _does_game_proceed();
\* the after-game hook runs if done; the loop is left by break either way
GMInvalidResponse(g) ==
    LET done == ~DoesGameProceed(g)
    IN  [g EXCEPT !.invalid_response = TRUE,
                  !.after_game = IF done THEN @ + 1 ELSE @,
                  !.pc = "returned"]

\* the response is valid: the environment is stepped, the turn and the round
\* move on unless done, and the episode is closed if done
GMValidResponse(g, r) ==
    LET g1   == [g EXCEPT !.turns = @ + 1, !.last_idx = g.current_player_idx,
                          !.stepped_after_terminated = @ \/ g.env_terminated,
                          !.env_terminated = @ \/ r.terminated,
                          !.env_aborted = @ \/ r.aborted]
        done == Done(r, DoesGameProceed(g1))
        idx  == NextPlayer(g1.current_player_idx, g1.players)
        g2   == IF ~done /\ ShouldPassTurn
                THEN IF StartNextRound(idx)
                     THEN [g1 EXCEPT !.current_player_idx = idx, !.passes = @ + 1,
                                     !.after_round = @ + 1, !.current_round = @ + 1]
                     ELSE [g1 EXCEPT !.current_player_idx = idx, !.passes = @ + 1]
                ELSE g1
        g3   == IF done
                THEN [g2 EXCEPT !.after_game = @ + 1, !.episode_score = @ + 1]
                ELSE g2
    IN  [g3 EXCEPT !.pc = IF LoopContinues(done) THEN "loop" ELSE "returned"]

\* one pass through the body of the while loop of play()
GMPlayIteration ==
    /\ env = "play" /\ gm.pc \in {"setup", "loop"}
    /\ gm.turns < MaxTurns
    /\ LET g == [gm EXCEPT !.before_round = @ + 1,
                           !.prompted_idx = gm.current_player_idx]
       IN  \E response \in Responses :
             IF response = "invalid"
             THEN gm' = GMInvalidResponse(g)
             ELSE \E r \in StepResults : gm' = GMValidResponse(g, r)
    /\ UNCHANGED <<env, config, ready, state, terminated, truncated, info,
                   player_observations, explored, current_player, observations,
                   action_spaces, last, accepted>>

GMInit ==
    /\ env = "play"
    /\ gm = GMConstructed
    /\ config = NA
    /\ state = NA
    /\ terminated = NA
    /\ truncated = NA
    /\ info = NA
    /\ player_observations = NA
    /\ explored = NA
    /\ current_player = NA
    /\ observations = NA
    /\ action_spaces = NA

Init ==
    /\ ready = FALSE
    /\ accepted = 0
    /\ last = NoCall
    /\ \/ HelloInit
       \/ PortalInit
       \/ TTTInit
       \/ SudokuInit
       \/ GMInit

Next ==
    \/ HelloReset
    \/ HelloStep
    \/ HelloObserveFor
    \/ PortalReset
    \/ PortalStep
    \/ TTTReset
    \/ TTTStep
    \/ SudokuReset
    \/ SudokuStep
    \/ GMSetup
    \/ GMPlayWithoutPlayer
    \/ GMPlayIteration

Spec == Init /\ [][Next]_vars

\* one environment at a time
InitHello == Init /\ env = "hello"
NextHello == HelloReset \/ HelloStep \/ HelloObserveFor
SpecHello == InitHello /\ [][NextHello]_vars

InitPortal == Init /\ env = "portal"
NextPortal == PortalReset \/ PortalStep
SpecPortal == InitPortal /\ [][NextPortal]_vars

InitTTT == Init /\ env = "ttt"
NextTTT == TTTReset \/ TTTStep
SpecTTT == InitTTT /\ [][NextTTT]_vars

InitSudoku == Init /\ env = "sudoku"
NextSudoku == SudokuReset \/ SudokuStep
SpecSudoku == InitSudoku /\ [][NextSudoku]_vars

InitPlay == Init /\ env = "play"
NextPlay == GMSetup \/ GMPlayWithoutPlayer \/ GMPlayIteration
SpecPlay == InitPlay /\ [][NextPlay]_vars

(***************************************************************************)
(* TicTacToeGame: the turn loop of the orchestrator driving the            *)
(* TicTacToeEnvironment.  player_x is added first, player_o second; the    *)
(* loop takes the current player's response, steps the environment for     *)
(* that player and passes the turn (_should_pass_turn is the default).     *)
(* env = "tttplay"; gm holds the orchestrator's side.                      *)
(***************************************************************************)
TTTGameConstructed ==
    [ pc |-> "constructed", current_player_idx |-> 0, played |-> {},
      invalid_response |-> FALSE ]

\* the responses of a player: "row col" for a cell of the board, or a text
\* that _validate_player_response refuses (not two integers, or off the board)
TTTResponses == ((0..2) \X (0..2)) \cup {<<"invalid">>}

\* _validate_player_response: two integers with 0 <= row < 3 and 0 <= col < 3
TTTValidatePlayerResponse(response) == response \in (0..2) \X (0..2)

\* parse_action_from_response
TTTParseActionFromResponse(response) ==
    [action_type |-> "make_move", row |-> response[1], col |-> response[2]]

\* _does_game_proceed: not state["terminated"]
TTTDoesGameProceed(st) == ~st.terminated

\* the orchestrator's current player
TTTCurrentPlayer == TTTPlayers[gm.current_player_idx + 1]

\* setup(): the players are added, X first; the environment is reset
TTTGameSetup ==
    /\ env = "tttplay" /\ gm.pc = "constructed"
    /\ LET st0 == ConstructedState(config)
           st1 == [st0 EXCEPT !.grid = TTTInitializeGrid(@)]
           u   == TTTUpdateObservations(st1, observations, TTTPlayers)
       IN  /\ state' = u.state
           /\ observations' = u.observations
    /\ current_player' = 1
    /\ action_spaces' = [p \in Range(TTTPlayers) |-> <<"make_move">>]
    /\ ready' = TRUE
    /\ accepted' = 0
    /\ last' = ResetCall(accepted)
    /\ gm' = [gm EXCEPT !.pc = "loop", !.current_player_idx = 0]
    /\ UNCHANGED <<env, config, terminated, truncated, info, player_observations, explored>>

\* one iteration of the loop of play()
TTTGamePlayTurn ==
    /\ env = "tttplay" /\ gm.pc = "loop"
    /\ \E response \in TTTResponses :
        LET player == TTTCurrentPlayer
        IN  IF ~TTTValidatePlayerResponse(response)
            THEN /\ gm' = [gm EXCEPT !.pc = "done", !.invalid_response = TRUE]
                 /\ UNCHANGED <<state, observations, current_player, accepted, last,
                                explored, action_spaces>>
            ELSE LET action == TTTParseActionFromResponse(response)
                     v      == TTTIsActionValidInState(state, player, action)
                     branch == StepBranch(state, action_spaces, player, action, v[1])
                 IN  /\ CASE branch = "accepted" -> TTTStepAccepted(player, action)
                           [] branch = "rejected" -> TTTStepRejected(player, v[2])
                           [] OTHER -> StepRaises(branch)
                     /\ LET done == Done([terminated |-> state'.terminated,
                                          truncated |-> FALSE],
                                         TTTDoesGameProceed(state'))
                        IN  gm' = IF LoopContinues(done)
                                  THEN [gm EXCEPT
                                          !.current_player_idx =
                                              IF ShouldPassTurn THEN NextPlayer(@, Len(TTTPlayers))
                                              ELSE @,
                                          !.played = @ \cup {player}]
                                  ELSE [gm EXCEPT !.pc = "done", !.played = @ \cup {player}]
    /\ UNCHANGED <<env, config, ready, terminated, truncated, info, player_observations>>

TTTGameInit ==
    /\ env = "tttplay"
    /\ gm = TTTGameConstructed
    /\ config = TTTConfig
    /\ state = [ConstructedState(TTTConfig) EXCEPT !.grid = TTTInitializeGrid(@)]
    /\ current_player = 1
    /\ observations = <<>>
    /\ action_spaces = <<>>
    /\ explored = NA
    /\ terminated = NA
    /\ truncated = NA
    /\ info = NA
    /\ player_observations = NA
    /\ ready = FALSE
    /\ accepted = 0
    /\ last = NoCall

InitTTTPlay == TTTGameInit
NextTTTPlay == TTTGameSetup \/ TTTGamePlayTurn
SpecTTTPlay == InitTTTPlay /\ [][NextTTTPlay]_vars

(***************************************************************************)
(* HelloGame: the DialogueGameMaster driving the HelloGameEnvironment.     *)
(* The greeter is added first, the greeted second.  env = "helloplay";     *)
(* gm holds the orchestrator's side: where play() is, whose turn it is,    *)
(* the parsed response of the turn and the observations the environment's  *)
(* step() was entered with.                                                *)
(***************************************************************************)
HelloGamePlayers == <<"Player 1", "Player 2">>

Greeter == HelloGamePlayers[1]
Greeted == HelloGamePlayers[2]

HelloGameConstructed ==
    [ pc |-> "constructed", current_player_idx |-> 0, response |-> NA,
      obs_at_step |-> NA, invalid_response |-> FALSE, episode_score |-> NA,
      steps |-> 0, stepped_by |-> {}, prompted |-> {} ]

\* the utterances of a player: the greetings and a blank text
HelloResponses == Greetings \cup { <<" ">> }

\* utterance.strip() is empty
IsBlank(utterance) == \A i \in 1..Len(utterance) : utterance[i] = " "

\* _validate_player_response: the greeter's utterance must not be blank, the
\* greeted player's is always valid
HelloValidatePlayerResponse(player, utterance) ==
    IF player = Greeter THEN ~IsBlank(utterance) ELSE TRUE

\* _parse_response: the default returns the response as it is
ParseResponse(player, response) == response

\* variant: the hook sets the observation of the player who responded
OnValidPlayerResponseToSelf(obs, player, parsed_response) ==
    SetObservationFor(obs, player, parsed_response)

\* _on_valid_player_response: the greeter's parsed response becomes the
\* observation of the greeted player
OnValidPlayerResponse(obs, player, parsed_response) ==
    IF player = Greeter THEN SetObservationFor(obs, Greeted, parsed_response) ELSE obs

\* create_action_from_response
CreateActionFromResponse(response) == [action_type |-> 0, text |-> response]

\* observe_for(player) on a dictionary of observations
ObserveFor(obs, player, st) ==
    IF player \in DOMAIN obs THEN obs
    ELSE SetObservationFor(obs, player,
             IF "prompt" \in DOMAIN st THEN st.prompt ELSE <<"No prompt available.">>)

\* compute_response_score / compute_episode_score: 1.0 if state["success"] else 0.0
HelloComputeResponseScore(st) == IF st.success THEN 1 ELSE 0
HelloComputeEpisodeScore(st) == IF st.success THEN 1 ELSE 0

\* variant: the episode ends with a successful greeting only
HelloStepTerminatedOnSuccess(st) == st.success

\* step(): self.terminated = True, the game has one round
HelloStepTerminated(st) == TRUE

\* setup(): the players are added, _on_before_game resets the environment and
\* sets the current player's observation to the prompt
HelloGameSetup ==
    /\ env = "helloplay" /\ gm.pc = "constructed"
    /\ state' = HelloInitState(config)
    /\ player_observations' = SetObservationFor(<<>>, Greeter, HelloInitState(config).prompt)
    /\ terminated' = FALSE
    /\ truncated' = FALSE
    /\ info' = [message |-> <<"Environment reset">>]
    /\ ready' = TRUE
    /\ accepted' = 0
    /\ last' = ResetCall(accepted)
    /\ gm' = [gm EXCEPT !.pc = "loop", !.current_player_idx = 0]
    /\ UNCHANGED <<env, config, explored, current_player, observations, action_spaces>>

\* one iteration of the loop of play(): observe, respond, validate, parse,
\* the post-parse hook, the step of the environment, the end of the episode
HelloGamePlayTurn ==
    /\ env = "helloplay" /\ gm.pc = "loop"
    /\ \E response \in HelloResponses :
        LET player == HelloGamePlayers[gm.current_player_idx + 1]
            obs0   == ObserveFor(player_observations, player, state)
        IN  IF ~HelloValidatePlayerResponse(player, response)
            THEN /\ player_observations' = obs0
                 /\ gm' = [gm EXCEPT !.pc = "done", !.invalid_response = TRUE,
                                      !.prompted = @ \cup {player}]
                 /\ last' = Call("play", "ok", "invalid_response", FALSE, FALSE, 0)
                 /\ UNCHANGED <<state, terminated, truncated, info, accepted>>
            ELSE LET parsed == ParseResponse(player, response)
                     obs1   == OnValidPlayerResponse(obs0, player, parsed)
                     action == CreateActionFromResponse(parsed)
                     st1    == [state EXCEPT !.current_context = action.text]
                     st2    == ValidateGreeting(st1, action.text)
                     st3    == [st2 EXCEPT !.round = @ + 1]
                     msg    == ResultMessage(st3)
                     done   == Done([terminated |-> HelloStepTerminated(st3),
                                     truncated |-> FALSE], ~HelloStepTerminated(st3))
                     gm1    == [gm EXCEPT !.response = parsed, !.obs_at_step = obs1,
                                          !.steps = @ + 1,
                                          !.stepped_by = @ \cup {player},
                                          !.prompted = @ \cup {player}]
                 IN  /\ state' = st3
                     /\ terminated' = HelloStepTerminated(st3)
                     /\ info' = [ message |-> msg, success |-> st3.success,
                                  aborted |-> st3.aborted,
                                  missing_words |-> st3.missing_words,
                                  response_score |-> Reward(st3),
                                  response_feedback |-> msg, episode_score |-> Reward(st3) ]
                     /\ player_observations' = SetObservationFor(obs1, player, st3.current_context)
                     /\ accepted' = IF st3.aborted THEN accepted ELSE accepted + 1
                     /\ last' = Call("step", "ok", IF st3.aborted THEN "rejected" ELSE "accepted",
                                     FALSE, FALSE, Reward(st3))
                     /\ gm' = IF LoopContinues(done)
                              THEN [gm1 EXCEPT !.current_player_idx =
                                          IF ShouldPassTurn
                                          THEN NextPlayer(@, Len(HelloGamePlayers)) ELSE @]
                              ELSE [gm1 EXCEPT !.pc = "done",
                                      !.episode_score = HelloComputeEpisodeScore(st3)]
                     /\ UNCHANGED truncated
    /\ UNCHANGED <<env, config, ready, explored, current_player, observations, action_spaces>>

HelloGameComputeResponseScore ==
    /\ env = "helloplay" /\ ready
    /\ last' = Call("compute_response_score", "ok", "none", FALSE, FALSE,
                    HelloComputeResponseScore(state))
    /\ UNCHANGED <<gm, env, config, ready, state, terminated, truncated, info,
                   player_observations, explored, current_player, observations,
                   action_spaces, accepted>>

\* variant: reading the score clears the success flag
HelloGameComputeEpisodeScoreConsumes ==
    /\ env = "helloplay" /\ ready
    /\ last' = Call("compute_episode_score", "ok", "none", FALSE, FALSE,
                    HelloComputeEpisodeScore(state))
    /\ state' = [state EXCEPT !.success = FALSE]
    /\ UNCHANGED <<gm, env, config, ready, terminated, truncated, info,
                   player_observations, explored, current_player, observations,
                   action_spaces, accepted>>

HelloGameComputeEpisodeScore ==
    /\ env = "helloplay" /\ ready
    /\ last' = Call("compute_episode_score", "ok", "none", FALSE, FALSE,
                    HelloComputeEpisodeScore(state))
    /\ UNCHANGED <<gm, env, config, ready, state, terminated, truncated, info,
                   player_observations, explored, current_player, observations,
                   action_spaces, accepted>>

HelloGameInit ==
    /\ env = "helloplay"
    /\ gm = HelloGameConstructed
    /\ config \in HelloConfigs
    /\ state = <<>>
    /\ terminated = FALSE
    /\ truncated = NA
    /\ info = NA
    /\ player_observations = <<>>
    /\ action_spaces = HelloSpaces
    /\ observations = HelloSpaces
    /\ explored = NA
    /\ current_player = NA
    /\ ready = FALSE
    /\ accepted = 0
    /\ last = NoCall

InitHelloPlay == HelloGameInit
NextHelloPlay ==
    \/ HelloGameSetup
    \/ HelloGamePlayTurn
    \/ HelloGameComputeResponseScore
    \/ HelloGameComputeEpisodeScore
SpecHelloPlay == InitHelloPlay /\ [][NextHelloPlay]_vars

(***************************************************************************)
(* Properties                                                              *)
(***************************************************************************)
GridEnvs == {"portal", "ttt", "sudoku"}

\* the terminated flag of the running environment (for the orchestrator: a
\* step has reported terminated)
Terminated ==
    CASE env = "hello" -> terminated
      [] env = "play"  -> gm.env_terminated
      [] OTHER         -> state.terminated

\* the state without its transient warning
WithoutWarning(st) == [st EXCEPT !.warning = <<>>]

\* C1: once the terminated flag is true, a further step() made before reset()
\* raises an error: it never returns normally.
C1_StepAfterTerminatedRaises ==
    (last.op = "step" /\ last.on_terminated) => last.outcome = "raised"

\* C2 as stated: whenever step() rejects an action, in any environment, the full
\* state apart from the warning is the same before and after the call.
C2_RejectedLeavesStateUnchanged ==
    [][(last'.op = "step" /\ last'.verdict = "rejected")
        => /\ Terminated' = Terminated
           /\ IF env = "hello" THEN state' = state
              ELSE WithoutWarning(state') = WithoutWarning(state)]_vars

\* C2 amended: a soft rejection (portal, tic-tac-toe, sudoku) leaves the state
\* apart from the warning, the explored masks and the player to move unchanged;
\* the greeting environment rejects a greeting without the prefix hard:
\* aborted and terminated become true, success false, round grows by one and
\* current_context holds the greeting, every other field is unchanged.
C2_SoftRejectionLeavesStateUnchanged ==
    [][(last'.op = "step" /\ last'.verdict = "rejected")
        => IF env = "hello"
           THEN /\ terminated' /\ state'.aborted /\ ~state'.success
                /\ state' = [state EXCEPT !.aborted = TRUE, !.success = FALSE,
                                          !.round = @ + 1,
                                          !.current_context = state'.current_context]
           ELSE /\ WithoutWarning(state') = WithoutWarning(state)
                /\ explored' = explored
                /\ current_player' = current_player
                /\ action_spaces' = action_spaces]_vars

\* a rejected step in a grid environment after some accepted moves
C2_Witness ==
    /\ env = "portal" /\ last.op = "step" /\ last.verdict = "rejected"
    /\ state.moves >= 2

PortalPlayer == PortalPlayers[1]

\* the (first) object of a type in a cell
ObjectOfType(st, pos, type) ==
    LET hits == SelectSeq(st.grid[pos], LAMBDA o : o.type = type) IN hits[1]

SwitchActivated(st) == ObjectOfType(st, config.grid.switch, "switch").activated
DoorIsOpen(st) == ObjectOfType(st, config.grid.door, "door").is_open

\* C4: the accepted step that takes the player onto the portal cell leaves
\* terminated=true, success=true, aborted=false and moves = moves made.
C4_EnteringPortalWins ==
    ( /\ env = "portal" /\ last.op = "step" /\ last.verdict = "accepted"
      /\ state.player_positions[PortalPlayer] = config.grid.portal )
    => ( /\ state.terminated /\ state.success /\ ~state.aborted
         /\ state.moves = accepted )

\* C5: the accepted step that takes the player onto the switch flips the
\* switch's activated flag and toggles the door in that same step.
C5_SwitchStepTogglesDoors ==
    [][( /\ env = "portal" /\ last'.op = "step" /\ last'.verdict = "accepted"
         /\ state'.player_positions[PortalPlayer] = config.grid.switch )
        => ( /\ SwitchActivated(state') # SwitchActivated(state)
             /\ DoorIsOpen(state') # DoorIsOpen(state) )]_vars

\* the mark on a cell of the tic-tac-toe board
Mark(c) == Top(state.grid[c]).symbol

WinningLines ==
    { {<<0,0>>, <<0,1>>, <<0,2>>}, {<<1,0>>, <<1,1>>, <<1,2>>}, {<<2,0>>, <<2,1>>, <<2,2>>},
      {<<0,0>>, <<1,0>>, <<2,0>>}, {<<0,1>>, <<1,1>>, <<2,1>>}, {<<0,2>>, <<1,2>>, <<2,2>>},
      {<<0,0>>, <<1,1>>, <<2,2>>}, {<<0,2>>, <<1,1>>, <<2,0>>} }

HasLine == \E l \in WinningLines, g \in {GlyphX, GlyphO} : \A c \in l : Mark(c) = g

BoardFull == \A c \in (0..2) \X (0..2) : Mark(c) # GlyphEmpty

\* C6: after an accepted move, a completed line means terminated with success,
\* a full board without a line terminated without success, anything else not
\* terminated.
C6_WinDrawOrRunning ==
    (env = "ttt" /\ last.op = "step" /\ last.verdict = "accepted")
    => /\ HasLine => (state.terminated /\ state.success)
       /\ (~HasLine /\ BoardFull) => (state.terminated /\ ~state.success)
       /\ (~HasLine /\ ~BoardFull) => ~state.terminated

\* X,O,X,O,X with X filling the top row
C6_Witness ==
    /\ env = "ttt" /\ last.op = "step" /\ last.verdict = "accepted"
    /\ state.moves = 5 /\ \A j \in 0..2 : Mark(<<0, j>>) = GlyphX
    /\ state.terminated /\ state.success

\* a greeting holds a word when the word occurs in it, whatever the case of the
\* greeting's letters and with or without its punctuation
HoldsWord(greeting, word) ==
    \/ Contains(Lower(greeting), word)
    \/ Contains(StripPunctuation(Lower(greeting)), word)

WordMisses(word) == ~HoldsWord(state.current_context, word)

\* C7: after the one step of a greeting episode: prefix and every required word
\* give success; no prefix gives aborted; prefix with words missing gives
\* neither, and missing_words lists exactly the missing words in order.
C7_GreetingOutcome ==
    (env = "hello" /\ ready /\ terminated)
    => LET g       == state.current_context
           missing == SelectSeq(state.required_words, WordMisses)
       IN  /\ (StartsWith(g, sGREET) /\ missing = <<>>)
               => (state.success /\ ~state.aborted /\ state.missing_words = <<>>)
           /\ ~StartsWith(g, sGREET) => (state.aborted /\ ~state.success)
           /\ (StartsWith(g, sGREET) /\ missing # <<>>)
               => (~state.success /\ ~state.aborted /\ state.missing_words = missing)

\* C8: aborted and success are never both true.
C8_AbortedExcludesSuccess ==
    \/ env = "play"
    \/ (env = "hello" /\ ~ready)
    \/ ~(state.aborted /\ state.success)

\* an aborted greeting episode
C8_Witness == env = "hello" /\ ready /\ state.aborted /\ ~state.success

\* C9: once terminated is true it stays true until reset().
C9_TerminatedAbsorbing ==
    [][(Terminated /\ last'.op # "reset") => Terminated']_vars

\* a step was attempted on an ended greeting episode, which is still ended
C9_Witness == env = "hello" /\ last.op = "step" /\ last.on_terminated /\ terminated

\* what reset() leaves, written out from the configuration
FreshCell(cfg, c) ==
    IF c \in Range(cfg.grid.walls) THEN <<[type |-> "wall", position |-> c]>>
    ELSE IF c = cfg.grid.portal THEN <<[type |-> "portal", position |-> c]>>
    ELSE IF c = cfg.grid.switch THEN <<[type |-> "switch", position |-> c, activated |-> FALSE]>>
    ELSE IF c = cfg.grid.door THEN <<[type |-> "door", position |-> c, is_open |-> FALSE]>>
    ELSE IF c = cfg.grid.player_start
    THEN <<[type |-> "player", position |-> c, player |-> PortalPlayer]>>
    ELSE <<>>

Near(c, d) == c[1] - d[1] \in -1..1 /\ c[2] - d[2] \in -1..1

FreshFlags(st) ==
    /\ ~st.success /\ ~st.terminated /\ ~st.aborted /\ st.moves = 0 /\ st.warning = <<>>

FreshHello ==
    /\ state = [ target_name |-> config.target_name, language |-> "en", prompt |-> sPrompt,
                 required_words |-> <<sWelcome, sHello, Lower(config.target_name)>>,
                 missing_words |-> <<>>, success |-> FALSE, aborted |-> FALSE,
                 round |-> 0, current_context |-> sPrompt ]
    /\ terminated = FALSE /\ truncated = FALSE
    /\ info = [message |-> <<"Environment reset">>]
    /\ player_observations = <<>>
    /\ action_spaces = HelloSpaces /\ observations = HelloSpaces

FreshPortal ==
    LET cells == (0..2) \X (0..2)
        seen  == [c \in cells |-> Near(c, config.grid.player_start)]
    IN  /\ FreshFlags(state)
        /\ state.grid = [c \in cells |-> FreshCell(config, c)]
        /\ state.player_positions = [p \in {PortalPlayer} |-> config.grid.player_start]
        /\ explored = [p \in {PortalPlayer} |-> seen]
        /\ action_spaces = [p \in {PortalPlayer} |-> <<"move">>]
        /\ observations = [p \in {PortalPlayer} |->
             [ role |-> "user",
               content |-> [ base_prompt |-> sPrompt,
                             grid |-> [c \in cells |->
                                        IF ~seen[c] THEN "unexplored"
                                        ELSE IF FreshCell(config, c) = <<>> THEN "empty"
                                        ELSE FreshCell(config, c)[1].type] ] ] ]

FreshTTT ==
    LET cells == (0..2) \X (0..2) IN
    /\ FreshFlags(state)
    /\ state.grid = [c \in cells |-> <<[type |-> <<"cell", c[1], c[2]>>, position |-> c,
                                        symbol |-> GlyphEmpty]>>]
    /\ current_player = 1
    /\ action_spaces = [p \in {"Player 1", "Player 2"} |-> <<"make_move">>]
    /\ observations = [p \in {"Player 1", "Player 2"} |->
         [ role |-> "user",
           content |-> [prompt |-> sPrompt, symbol |-> IF p = "Player 1" THEN "X" ELSE "O"],
           grid |-> [c \in cells |-> GlyphEmpty] ] ]

FreshSudoku ==
    LET cells == (0..8) \X (0..8) IN
    /\ FreshFlags(state)
    /\ state.grid = [c \in cells |-> <<[type |-> <<"cell", c[1], c[2]>>, position |-> c,
                                        symbol |-> <<"str", OriginalGrid[c]>>]>>]
    /\ action_spaces = [p \in {"Player 1"} |-> <<"fill_cell">>]
    /\ observations = [p \in {"Player 1"} |->
         [ role |-> "user", content |-> [prompt |-> sPrompt], grid |-> OriginalGrid ] ]

C11_ExploredOnlyGrows ==
    [][(env = "portal" /\ ready /\ last'.op = "step")
        => \A p \in DOMAIN explored : \A c \in DOMAIN explored[p] :
              explored[p][c] => explored'[p][c]]_vars

\* after accepted moves, a cell away from the player's neighbourhood is explored
C11_Witness ==
    /\ env = "portal" /\ ready /\ last.op = "step" /\ last.verdict = "accepted"
    /\ \E c \in DOMAIN explored[PortalPlayer] :
          /\ explored[PortalPlayer][c]
          /\ ~Near(c, state.player_positions[PortalPlayer])

\* C18: asking for the observation of a player who has none, or stepping with
\* a player who has no action space, raises: no default is made up.
C18_UnregisteredPlayerRaises ==
    (last.op \in {"observe_for", "step"} /\ last.verdict = "unregistered")
    => last.outcome = "raised"

\* C19: a step whose action is of an allowed type and breaks a rule of the game
\* does not raise: it returns, and the episode is either still running or
\* ended as aborted.
C19_RuleViolationNeverRaises ==
    (last.op = "step" /\ last.verdict \in {"rejected", "out_of_bounds"})
    => /\ last.outcome = "ok"
       /\ IF env = "hello" THEN state.aborted /\ terminated
          ELSE ~state.terminated \/ state.aborted

\* C20: a step of a running episode whose action_type is not in the player's
\* action space fails with the invalid-action-type error and changes nothing.
C20_InvalidActionTypeFails ==
    [][(last'.op = "step" /\ last'.bad_type)
        => /\ last'.outcome = "raised" /\ last'.verdict = "invalid_action_type"
           /\ state' = state /\ Terminated' = Terminated]_vars

\* play() has returned or is at the top of its loop
GMReturned == env = "play" /\ gm.pc = "returned"
GMRunning == env = "play" /\ gm.pc = "loop"

\* C12: when a response fails the format validation, play() either ends the
\* episode with the episode marked aborted, or goes on with the loop without a
\* step, the same player being prompted again: one of the two, never both.
C12_InvalidResponseEndsAbortedOrContinues ==
    (env = "play" /\ gm.invalid_response)
    => LET ended     == gm.pc = "returned" /\ gm.env_aborted
           continued == /\ gm.pc = "loop"
                        /\ gm.current_player_idx = gm.prompted_idx
       IN  (ended \/ continued) /\ ~(ended /\ continued)

\* C13: a play() that had a current player returns only after the after-game
\* hook has run and an episode score has been logged.
C13_PlayEndsWithAfterGameAndScore ==
    (GMReturned /\ gm.has_current_player)
    => (gm.after_game >= 1 /\ gm.episode_score >= 1)

\* C14: within an episode the orchestrator never steps the environment after a
\* step has reported terminated.
C14_NoStepAfterTerminated ==
    (env = "play") => ~gm.stepped_after_terminated

\* an episode of several turns that ended with a terminated step
C14_Witness == GMReturned /\ gm.env_terminated /\ gm.turns >= 3

\* C15: the k-th turn (k = 0, 1, ...) is taken by the player added (k mod n)-th,
\* and the player to move next is the one added (k+1 mod n)-th.
C15_TurnsFollowAddOrder ==
    (env = "play" /\ gm.turns > 0)
    => /\ gm.last_idx = (gm.turns - 1) % gm.players
       /\ GMRunning => gm.current_player_idx = gm.turns % gm.players

\* two players, four turns taken: the second player took the fourth
C15_Witness ==
    env = "play" /\ gm.players = 2 /\ gm.turns = 4 /\ gm.last_idx = 1

\* C16 as stated: current_round always equals the number of completed full
\* cycles through all players.
C16_RoundEqualsCompletedCycles ==
    (env = "play" /\ gm.players > 0) => gm.current_round = gm.turns \div gm.players

\* C16 amended: current_round and the number of after-round hook calls equal
\* the number of times the passing of the turn wrapped to the first player;
\* the step that ends the episode passes no turn, so a cycle it completes is
\* not counted.
C16_RoundCountsWraps ==
    (env = "play" /\ gm.players > 0)
    => /\ gm.current_round = gm.passes \div gm.players
       /\ gm.after_round = gm.current_round
       /\ gm.passes = IF gm.turns > 0 /\ GMReturned /\ ~gm.invalid_response
                      THEN gm.turns - 1 ELSE gm.turns

\* two players, five turns: two rounds completed, the episode ended in the third
C16_Witness ==
    GMReturned /\ gm.players = 2 /\ gm.turns = 5 /\ gm.current_round = 2

\* C17: the before-round hook runs once before the first round and once at
\* each round boundary, never between two turns of a round.
C17_BeforeRoundOncePerRound ==
    (env = "play" /\ gm.pc \in {"setup", "loop", "returned"} /\ gm.has_current_player)
    => gm.before_round = 1 + gm.current_round

\* C29: in the portal and tic-tac-toe environments success=true implies
\* terminated=true in every reachable state.
C29_SuccessImpliesTerminated ==
    (env \in {"portal", "ttt"} /\ ready) => (state.success => state.terminated)

\* the board holds no empty cell / no value twice in a row, column or block
SudokuBoard == SudokuGetBoardFromGrid(state.grid)

SudokuFull == \A c \in Cells(SudokuConfig) : SudokuBoard[c] # 0

SameUnit(c, d) ==
    \/ c[1] = d[1]
    \/ c[2] = d[2]
    \/ (c[1] \div 3 = d[1] \div 3 /\ c[2] \div 3 = d[2] \div 3)

NoRepeatedValue ==
    \A c, d \in Cells(SudokuConfig) :
        (c # d /\ SameUnit(c, d) /\ SudokuBoard[c] # 0) => SudokuBoard[c] # SudokuBoard[d]

\* C30: the accepted action that fills the last empty cell of a grid without
\* repeated values sets terminated=true, success=true, aborted=false; while a
\* cell is still empty an accepted action leaves terminated=false, success=false.
C30_FillingLastCellSolves ==
    (env = "sudoku" /\ last.op = "step" /\ last.verdict = "accepted")
    => IF SudokuFull /\ NoRepeatedValue
       THEN state.terminated /\ state.success /\ ~state.aborted
       ELSE SudokuFull \/ (~state.terminated /\ ~state.success)

\* the cells whose list holds the player marker, and the marker itself
MarkerCells ==
    { c \in Cells(config) : \E k \in 1..Len(state.grid[c]) : state.grid[c][k].type = "player" }

Marker(c) == ObjectOfType(state, c, "player")

\* C23: in every reachable state of the portal environment the marker is in
\* exactly one cell, it is the last element of that cell, and its position
\* field and player_positions[player] both equal that cell.
C23_MarkerLocationsAgree ==
    (env = "portal" /\ ready)
    => /\ Cardinality(MarkerCells) = 1
       /\ \A c \in MarkerCells :
            /\ Top(state.grid[c]).type = "player"
            /\ state.player_positions[PortalPlayer] = c
            /\ Marker(c).position = c

\* the checks of a move, read off the grid
TargetOf(a) == NewPos(state.player_positions[PortalPlayer], a.direction)

Holds(c, type) == \E k \in 1..Len(state.grid[c]) : state.grid[c][k].type = type

HoldsClosedDoor(c) ==
    \E k \in 1..Len(state.grid[c]) :
        state.grid[c][k].type = "door" /\ ~state.grid[c][k].is_open

MoveAllowed(a) ==
    /\ a.direction \in {"n", "s", "e", "w"}
    /\ TargetOf(a) \in Cells(config)
    /\ ~Holds(TargetOf(a), "wall")
    /\ ~HoldsClosedDoor(TargetOf(a))

FailingCheck(a) ==
    IF a.direction \notin {"n", "s", "e", "w"} THEN "Invalid direction"
    ELSE IF TargetOf(a) \notin Cells(config) THEN "outside the grid"
    ELSE IF Holds(TargetOf(a), "wall") THEN "is a wall"
    ELSE "is a closed door"

\* C24: a move is accepted iff its direction is one of n, s, e, w, the target
\* lies inside the grid and holds neither a wall nor a closed door; each
\* failing check returns its own non-empty reason; the player never occupies a
\* cell outside the grid, a wall cell or a closed-door cell.
C24_MoveAcceptedIffPassable ==
    (env = "portal" /\ ready)
    => /\ \A a \in PortalActions :
            LET v == PortalIsActionValidInState(config, state, PortalPlayer, a)
            IN  /\ v[1] <=> MoveAllowed(a)
                /\ ~v[1] => (v[2] # "" /\ v[2][1] = FailingCheck(a))
       /\ LET pos == state.player_positions[PortalPlayer]
          IN  pos \in Cells(config) /\ ~Holds(pos, "wall") /\ ~HoldsClosedDoor(pos)

\* a move towards the closed door has just been rejected
C24_Witness ==
    /\ env = "portal" /\ last.op = "step" /\ last.verdict = "rejected"
    /\ \E a \in PortalActions :
        /\ a.direction \in {"n", "s", "e", "w"}
        /\ TargetOf(a) \in Cells(config)
        /\ HoldsClosedDoor(TargetOf(a))
        /\ ~PortalIsActionValidInState(config, state, PortalPlayer, a)[1]

\* a sample object of the environment's own kind, homed at a position
SampleObject(pos) ==
    IF env = "ttt" THEN TicTacToeCell(pos, "X") ELSE SudokuObject(pos, 5)

\* add at old, remove, add at new: what get_objects_at returns afterwards
RoundTrip(grid, old, new) ==
    LET g1 == AddObject(grid, SampleObject(old))
        g2 == RemoveObject(g1, SampleObject(old))
    IN  AddObject(g2, SampleObject(new))

RoundTripHolds ==
    (env \in {"ttt", "sudoku"})
    => \A old, new \in DOMAIN state.grid :
         old # new =>
           LET g == RoundTrip(state.grid, old, new)
           IN  /\ GetObjectsAt(g, old) = GetObjectsAt(state.grid, old)
               /\ Len(GetObjectsAt(g, new)) = Len(GetObjectsAt(state.grid, new)) + 1
               /\ Top(GetObjectsAt(g, new)) = SampleObject(new)
               /\ SubSeq(GetObjectsAt(g, new), 1, Len(GetObjectsAt(g, new)) - 1)
                    = GetObjectsAt(state.grid, new)

\* an accepted step replaces the object of exactly one cell, which then holds
\* exactly one object, homed at that cell and different from the one before
ReplacedOneCell ==
    (env \in {"ttt", "sudoku"} /\ last'.op = "step" /\ last'.verdict = "accepted")
    => \E c \in DOMAIN state.grid :
         /\ Len(GetObjectsAt(state'.grid, c)) = 1
         /\ GetObjectsAt(state'.grid, c)[1].position = c
         /\ GetObjectsAt(state'.grid, c) # GetObjectsAt(state.grid, c)
         /\ \A d \in DOMAIN state.grid \ {c} :
              GetObjectsAt(state'.grid, d) = GetObjectsAt(state.grid, d)

\* C27: an object added at a position, removed, and added at a new position
\* leaves get_objects_at(old) as it was before the first add and
\* get_objects_at(new) ending with exactly that object; the remove-then-add of
\* the sudoku and tic-tac-toe update routines leaves exactly the new object
\* in the cell.
C27_RoundTripPlacement == []RoundTripHolds /\ [][ReplacedOneCell]_vars

\* an accepted move has put a mark into a cell that holds nothing else
C27_Witness ==
    /\ env = "ttt" /\ last.op = "step" /\ last.verdict = "accepted"
    /\ \E c \in Cells(TTTConfig) :
         /\ Len(GetObjectsAt(state.grid, c)) = 1
         /\ GetObjectsAt(state.grid, c)[1].symbol # GlyphEmpty

\* the players of the grid environment at hand
GridPlayers ==
    CASE env = "portal" -> Range(PortalPlayers)
      [] env = "ttt"    -> Range(TTTPlayers)
      [] env = "sudoku" -> Range(SudokuPlayers)
      [] OTHER          -> {}

\* the pairs <<player, reason>> of the soft rejections step() can make now
SoftRejections ==
    CASE env = "portal" ->
           { <<pa[1], PortalIsActionValidInState(config, state, pa[1], pa[2])[2]>> :
               pa \in { qa \in GridPlayers \X PortalActions :
                          StepBranch(state, action_spaces, qa[1], qa[2],
                              PortalIsActionValidInState(config, state, qa[1], qa[2])[1])
                            = "rejected" } }
      [] env = "ttt" ->
           { <<pa[1], TTTIsActionValidInState(state, pa[1], pa[2])[2]>> :
               pa \in { qa \in GridPlayers \X TTTActions :
                          StepBranch(state, action_spaces, qa[1], qa[2],
                              TTTIsActionValidInState(state, qa[1], qa[2])[1])
                            = "rejected" } }
      [] env = "sudoku" ->
           { <<pa[1], SudokuIsActionValidInState(state, pa[1], pa[2])[2]>> :
               pa \in { qa \in GridPlayers \X SudokuActions :
                          /\ ~IsGridValidRaises(qa[2])
                          /\ StepBranch(state, action_spaces, qa[1], qa[2],
                                 SudokuIsActionValidInState(state, qa[1], qa[2])[1])
                               = "rejected" } }
      [] OTHER -> {}

\* the step that softly rejects an action of the player with the reason
StepRejectedAs(player, reason) ==
    CASE env = "portal" -> PortalStepRejected(player, reason)
      [] env = "ttt"    -> TTTStepRejected(player, reason)
      [] env = "sudoku" -> SudokuStepRejected(player, reason)
      [] OTHER          -> FALSE

\* the warning line of an observation carries the reason
ShowsWarning(o, reason) ==
    /\ "warning" \in DOMAIN o.content
    /\ o.content.warning # <<>>
    /\ o.content.warning = reason

\* C21: the reason of every soft rejection is the warning of the acting
\* player's next observation, whichever player acted and at whatever move
\* count, and the pending warning is cleared once it has been shown.
C21_WarningShownOnce ==
    [][ \A pr \in SoftRejections :
          StepRejectedAs(pr[1], pr[2])
          => (ShowsWarning(observations'[pr[1]], pr[2]) /\ state'.warning = <<>>) ]_vars

\* the introductory prefix: the base prompt (and the role line that goes with it)
HasIntro(o) == "prompt" \in DOMAIN o.content \/ "base_prompt" \in DOMAIN o.content

GlyphOf(symbol) == IF symbol = "X" THEN GlyphX ELSE GlyphO

\* the cells an accepted move has changed carry the glyph of the mover
MoverSymbolWritten ==
    (env = "tttplay" /\ gm.pc = "loop" /\ last'.op = "step" /\ last'.verdict = "accepted"
       /\ state'.moves = state.moves + 1)
    => /\ \E c \in Cells(TTTConfig) : state'.grid[c] # state.grid[c]
       /\ \A c \in Cells(TTTConfig) :
            state'.grid[c] # state.grid[c]
            => state'.grid[c][1].symbol = GlyphOf(PlayerSymbol(TTTCurrentPlayer))

EnvAgreesOnCurrentPlayer ==
    (env = "tttplay" /\ gm.pc = "loop") => TTTPlayers[current_player] = TTTCurrentPlayer

\* C28: under the always-pass turn policy the symbol an accepted move writes is
\* the assigned symbol of the player who made the move, and the environment's
\* current_player never disagrees with the orchestrator's current player.
C28_SymbolOfMover == []EnvAgreesOnCurrentPlayer /\ [][MoverSymbolWritten]_vars

\* C22: the introductory prefix is part of the observation a player receives
\* on its first observed turn of an episode and of no observation the player
\* receives on a later turn.
C22_IntroOnFirstTurnOnly ==
    /\ (env \in GridEnvs /\ last.op = "reset")
       => \A p \in GridPlayers : HasIntro(observations[p])
    /\ (env \in {"sudoku", "portal"} /\ last.op = "step" /\ last.outcome = "ok")
       => \A p \in GridPlayers : ~HasIntro(observations[p])
    /\ (env = "tttplay" /\ gm.pc = "loop")
       => (HasIntro(observations[TTTCurrentPlayer]) <=> TTTCurrentPlayer \notin gm.played)

ScoreOps == {"compute_response_score", "compute_episode_score"}

\* a call of a scoring hook changes nothing but the record of the call, returns
\* the projection of the state, and returns what the call before it returned
ScoreHookIsPure ==
    (env = "helloplay" /\ last'.op \in ScoreOps)
    => /\ UNCHANGED <<gm, config, ready, state, terminated, truncated, info,
                      player_observations, accepted>>
       /\ last'.reward = (IF state.success THEN 1 ELSE 0)
       /\ last.op \in ScoreOps => last'.reward = last.reward

\* the score play() computed at the end of the episode is the score the hooks
\* return however often they have been called before and after
ScoreKeptByLaterCalls ==
    (env = "helloplay" /\ gm.pc = "done" /\ ~gm.invalid_response)
    => /\ gm.episode_score = HelloComputeEpisodeScore(state)
       /\ last.op \in ScoreOps => last.reward = gm.episode_score

\* C25: the scoring hooks compute_response_score and compute_episode_score
\* leave the environment state and the orchestrator's turn state unchanged;
\* repeated calls return the same score and later steps are not affected.
C25_ScoringHooksArePure == []ScoreKeptByLaterCalls /\ [][ScoreHookIsPure]_vars

\* the episode score has been read after a successful greeting
C25_Witness ==
    /\ env = "helloplay" /\ gm.pc = "done"
    /\ last.op = "compute_episode_score" /\ last.reward = 1 /\ state.success

\* C26: after the greeter's response has passed format validation, the
\* environment step is entered with the greeted player's observation content
\* equal to the greeter's parsed response; a response by the greeted player
\* changes no other player's observation.
C26_GreetingPassedToGreeted ==
    /\ (env = "helloplay" /\ gm.response # NA)
       => /\ Greeted \in DOMAIN gm.obs_at_step
          /\ gm.obs_at_step[Greeted].content = gm.response
    /\ (env = "helloplay" /\ ready)
       => \A r \in {sGREET, state.prompt} :
            LET after == OnValidPlayerResponse(player_observations, Greeted, r)
            IN  \A p \in DOMAIN after \ {Greeted} :
                  p \in DOMAIN player_observations /\ after[p] = player_observations[p]

\* the greeter has answered with a greeting that is not the prompt
C26_Witness ==
    /\ env = "helloplay" /\ gm.pc = "done" /\ gm.response # NA
    /\ gm.response # state.prompt /\ Len(gm.response) > 0
    /\ gm.obs_at_step[Greeted].content = gm.response

\* the integers is_valid_move is asked about: the board and two on either side
MoveInputs == -2..4

\* C40: is_valid_move(row, col) returns true exactly when
\* _is_action_valid_in_state accepts an action with that row and col, for every
\* board and every integer row and col, and never raises.
C40_IsValidMoveAgrees ==
    (env = "ttt")
    => \A row, col \in MoveInputs :
         LET r == IsValidMove(state.grid, row, col)
             v == TTTIsActionValidInState(state, TTTPlayers[1],
                      [action_type |-> "make_move", row |-> row, col |-> col])
         IN  ~r.raised /\ (r.value <=> v[1])

\* ---------------------------------------------------------------------
\* PortalGameInstanceGenerator.on_generate (env = "gen"); gm holds the locals
\* of the instance being generated, a cell is <<y, x>>.  Every random.randint,
\* random.choice and random.shuffle is a choice over its outcomes.
\* ---------------------------------------------------------------------

\* width = height of the experiments modelled (the combos have 5, 6 and 7)
GenSizes == {5, 6}

\* wall_fraction = 0.2; int(0.2 * n) for the n that occur
NumWalls(n) == (2 * n) \div 10

BorderWalls(width, height) ==
    { <<0, x>> : x \in 0..(width - 1) } \cup { <<height - 1, x>> : x \in 0..(width - 1) }
    \cup { <<y, 0>> : y \in 1..(height - 2) } \cup { <<y, width - 1>> : y \in 1..(height - 2) }

WithinBorders(cell, width, height) ==
    1 <= cell[1] /\ cell[1] < height - 1 /\ 1 <= cell[2] /\ cell[2] < width - 1

Interior(width, height) == (1..(height - 2)) \X (1..(width - 2))

Neighbors(cell) ==
    << <<cell[1] - 1, cell[2]>>, <<cell[1] + 1, cell[2]>>,
       <<cell[1], cell[2] - 1>>, <<cell[1], cell[2] + 1>> >>

\* the for loop over neighbors(cur): q and came_from grow in that order
RECURSIVE VisitNeighbors(_, _, _, _, _, _, _)
VisitNeighbors(nbs, cur, q, came_from, blocked, width, height) ==
    IF nbs = <<>> THEN [q |-> q, came_from |-> came_from]
    ELSE LET nb == Head(nbs) IN
         IF ~WithinBorders(nb, width, height) \/ nb \in blocked \/ nb \in DOMAIN came_from
         THEN VisitNeighbors(Tail(nbs), cur, q, came_from, blocked, width, height)
         ELSE VisitNeighbors(Tail(nbs), cur, Append(q, nb),
                             [c \in DOMAIN came_from \cup {nb} |->
                                 IF c = nb THEN cur ELSE came_from[c]],
                             blocked, width, height)

\* the while q loop; <<>> stands for None
RECURSIVE BfsLoop(_, _, _, _, _, _)
BfsLoop(q, came_from, goal, blocked, width, height) ==
    IF q = <<>> THEN came_from
    ELSE LET cur == Head(q) IN
         IF cur = goal THEN came_from
         ELSE LET r == VisitNeighbors(Neighbors(cur), cur, Tail(q), came_from,
                                      blocked, width, height)
              IN  BfsLoop(r.q, r.came_from, goal, blocked, width, height)

RECURSIVE PathBack(_, _)
PathBack(c, came_from) ==
    IF c = <<>> THEN <<>> ELSE Append(PathBack(came_from[c], came_from), c)

\* the list of cells from start to goal, or <<>> for None
BfsShortestPath(start, goal, blocked, width, height) ==
    LET came_from == BfsLoop(<<start>>, [c \in {start} |-> <<>>], goal, blocked, width, height)
    IN  IF goal \notin DOMAIN came_from THEN <<>> ELSE PathBack(goal, came_from)

\* variant: the door is walled in as well
PortalSurroundWallsWithDoor(portal, door, width, height) ==
    { nb \in Range(Neighbors(portal)) : WithinBorders(nb, width, height) }

\* the walls put around the portal
PortalSurroundWalls(portal, door, width, height) ==
    { nb \in Range(Neighbors(portal)) : WithinBorders(nb, width, height) /\ nb # door }

\* the cells next to a cell of cs that are inside the borders and not reserved
FreeNeighbors(cs, reserved, width, height) ==
    { nb \in UNION { Range(Neighbors(c)) : c \in cs } :
          WithinBorders(nb, width, height) /\ nb \notin reserved }

SwitchCandidates(g) ==
    LET on_path == FreeNeighbors(Range(g.portal_shortest_path), g.reserved, g.width, g.height)
    IN  IF on_path # {} THEN on_path
        ELSE FreeNeighbors({g.door}, g.reserved, g.width, g.height)

GenStart ==
    [ pc |-> "start", width |-> 0, height |-> 0, player_start |-> <<>>, portal |-> <<>>,
      portal_shortest_path |-> <<>>, door |-> <<>>, portal_surround_walls |-> {},
      reserved |-> {}, switch |-> <<>>, walls |-> {}, shortest_path |-> 0, max_moves |-> 0 ]

GenUnchanged ==
    UNCHANGED <<env, config, ready, state, terminated, truncated, info, player_observations,
                explored, current_player, observations, action_spaces, last, accepted>>

\* the next game instance: the experiment's size and a random start
GenPlayerStart ==
    /\ env = "gen"
    /\ gm.pc \in {"start", "emitted"}
    /\ \E size \in GenSizes :
         \E player_start \in Interior(size, size) :
           gm' = [GenStart EXCEPT !.pc = "portal", !.width = size, !.height = size,
                                  !.player_start = player_start]
    /\ GenUnchanged

\* one pass of the while loop that looks for a portal
GenPortal ==
    /\ env = "gen"
    /\ gm.pc = "portal"
    /\ \E candidate_portal_pos \in Interior(gm.width, gm.height) :
         LET candidate_path == BfsShortestPath(gm.player_start, candidate_portal_pos,
                                               BorderWalls(gm.width, gm.height),
                                               gm.width, gm.height)
         IN  IF candidate_portal_pos = gm.player_start \/ Len(candidate_path) < 3
             THEN gm' = gm
             ELSE LET door     == candidate_path[Len(candidate_path) - 1]
                      surround == PortalSurroundWalls(candidate_portal_pos, door,
                                                      gm.width, gm.height)
                  IN  gm' = [gm EXCEPT !.pc = "switch",
                                       !.portal = candidate_portal_pos,
                                       !.portal_shortest_path = candidate_path,
                                       !.door = door,
                                       !.portal_surround_walls = surround,
                                       !.reserved = Range(candidate_path) \cup surround]
    /\ GenUnchanged

\* random.choice(candidates) raises IndexError on an empty list
GenSwitch ==
    /\ env = "gen"
    /\ gm.pc = "switch"
    /\ IF SwitchCandidates(gm) = {}
       THEN gm' = [gm EXCEPT !.pc = "raised"]
       ELSE \E switch \in SwitchCandidates(gm) :
              LET switch_shortest_path ==
                      BfsShortestPath(gm.player_start, switch,
                                      BorderWalls(gm.width, gm.height), gm.width, gm.height)
              IN  gm' = [gm EXCEPT !.pc = "walls", !.switch = switch,
                                   !.reserved = @ \cup {switch} \cup Range(switch_shortest_path)]
    /\ GenUnchanged

\* the random walls, shortest_path and max_moves; the instance is emitted
GenWalls ==
    /\ env = "gen"
    /\ gm.pc = "walls"
    /\ LET available_cells == Interior(gm.width, gm.height) \ gm.reserved
           num_walls       == NumWalls(Cardinality(available_cells))
           base_shortest   == Len(gm.portal_shortest_path) - 1
           shortest_path_with_switch ==
               IF gm.switch \notin Range(gm.portal_shortest_path)
               THEN base_shortest + 2 ELSE base_shortest
           min(a, b)       == IF a < b THEN a ELSE b
       IN  \E random_walls \in SUBSET available_cells :
             /\ Cardinality(random_walls) = num_walls
             /\ gm' = [gm EXCEPT !.pc = "emitted",
                         !.walls = BorderWalls(gm.width, gm.height) \cup random_walls
                                       \cup gm.portal_surround_walls,
                         !.shortest_path = shortest_path_with_switch,
                         !.max_moves = min((gm.width * gm.height) \div 2,
                                           shortest_path_with_switch + 10)]
    /\ GenUnchanged

GenInit ==
    /\ env = "gen"
    /\ gm = GenStart
    /\ config = NA
    /\ state = NA
    /\ current_player = NA
    /\ observations = <<>>
    /\ action_spaces = <<>>
    /\ explored = NA
    /\ terminated = NA
    /\ truncated = NA
    /\ info = NA
    /\ player_observations = NA
    /\ ready = FALSE
    /\ accepted = 0
    /\ last = NoCall

InitGen == GenInit
NextGen == GenPlayerStart \/ GenPortal \/ GenSwitch \/ GenWalls
SpecGen == InitGen /\ [][NextGen]_vars

\* ---------------------------------------------------------------------
\* generated instances under the environment's movement rules
\* ---------------------------------------------------------------------

RECURSIVE SetToSeq(_)
SetToSeq(S) == IF S = {} THEN <<>> ELSE LET x == CHOOSE y \in S : TRUE
                                        IN  <<x>> \o SetToSeq(S \ {x})

\* the instance as the environment's config (players_start[0] as the start)
InstanceConfig(g) ==
    [ grid |-> [walls |-> SetToSeq(g.walls), portal |-> g.portal, switch |-> g.switch,
                door |-> g.door, player_start |-> g.player_start],
      height |-> g.height, width |-> g.width, max_moves |-> g.max_moves, prompt |-> sPrompt ]

\* the grid of the instance with the door closed, and with the door opened
ClosedGrid(g) == ConstructGrid(InstanceConfig(g), PortalPlayers[1])

OpenGrid(g) == [ClosedGrid(g) EXCEPT ![g.door] = <<ToggleState(Door(g.door))>>]

\* the cells one valid move away from pos
MovesFrom(cfg, grid, pos) ==
    { NewPos(pos, d) : d \in { d \in {"n", "s", "e", "w"} :
        PortalIsActionValidInState(cfg,
            [grid |-> grid, player_positions |-> [p \in Range(PortalPlayers) |-> pos]],
            PortalPlayers[1], [action_type |-> "move", direction |-> d])[1] } }

\* the number of valid moves of a shortest way from the cells of frontier to
\* goal that steps on no cell of avoid, or -1 when there is none
RECURSIVE Distance(_, _, _, _, _, _, _)
Distance(cfg, grid, frontier, seen, goal, avoid, n) ==
    IF goal \in frontier THEN n
    ELSE IF frontier = {} THEN -1
    ELSE LET next == (UNION { MovesFrom(cfg, grid, c) : c \in frontier }) \ (seen \cup avoid)
         IN  Distance(cfg, grid, next, seen \cup next, goal, avoid, n + 1)

\* start to switch with the door closed (stepping on the portal ends the episode)
ToSwitch(g) ==
    Distance(InstanceConfig(g), ClosedGrid(g), {g.player_start}, {g.player_start},
             g.switch, {g.portal}, 0)

\* switch to portal with the door opened
ToPortal(g) ==
    Distance(InstanceConfig(g), OpenGrid(g), {g.switch}, {g.switch}, g.portal, {}, 0)

Solvable(g) == ToSwitch(g) >= 0 /\ ToPortal(g) >= 0

Emitted == env = "gen" /\ gm.pc = "emitted"

\* C34: every emitted portal instance is solvable under the environment's
\* movement rules: the switch can be reached from the start with the door
\* closed, and then the portal through the opened door.
C34_EmittedInstanceSolvable == Emitted => Solvable(gm)

\* C35: the recorded shortest_path is the least number of moves of a winning
\* move sequence (start to switch to portal), and max_moves is not smaller.
C35_ShortestPathIsLeast ==
    Emitted => /\ Solvable(gm)
               /\ gm.shortest_path = ToSwitch(gm) + ToPortal(gm)
               /\ gm.max_moves >= gm.shortest_path

\* C36: start, portal, door and switch of an emitted instance are four
\* different interior cells, none of them in the wall list; the door is the
\* cell before the portal on the start-to-portal shortest path, and every other
\* interior neighbour of the portal is a wall.
C36_PlacementOfObjects ==
    Emitted =>
       LET four == <<gm.player_start, gm.portal, gm.door, gm.switch>> IN
       /\ \A i, j \in 1..4 : i # j => four[i] # four[j]
       /\ \A i \in 1..4 : WithinBorders(four[i], gm.width, gm.height) /\ four[i] \notin gm.walls
       /\ gm.door = gm.portal_shortest_path[Len(gm.portal_shortest_path) - 1]
       /\ gm.door \in Range(Neighbors(gm.portal))
       /\ gm.portal_shortest_path[1] = gm.player_start
       /\ gm.portal_shortest_path[Len(gm.portal_shortest_path)] = gm.portal
       /\ \A nb \in Range(Neighbors(gm.portal)) :
            (WithinBorders(nb, gm.width, gm.height) /\ nb # gm.door) => nb \in gm.walls

\* an instance of the larger size with random walls has been emitted
C36_Witness ==
    /\ Emitted /\ gm.width = 6
    /\ gm.walls # BorderWalls(gm.width, gm.height) \cup gm.portal_surround_walls

\* ---------------------------------------------------------------------
\* SudokuGame: validation and parsing of a response (env = "sudokugame").
\* An utterance is the list of its whitespace-separated tokens; a token is a
\* numeral, for which int() gives val, or is not, and int() raises ValueError.
\* ---------------------------------------------------------------------

Numeral(n) == [numeral |-> TRUE, val |-> n]

Word == [numeral |-> FALSE, val |-> 0]

Tokens == { Numeral(n) : n \in -1..9 } \cup {Word}

Utterances ==
    (Tokens \X Tokens \X Tokens)
    \cup { <<>>, <<Numeral(1)>>, <<Numeral(1), Numeral(2)>>,
           <<Numeral(1), Numeral(2), Numeral(3), Numeral(4)>> }

\* row, col, value = map(int, utterance.strip().split()) raises ValueError
UnpackRaises(utterance) ==
    Len(utterance) # 3 \/ \E i \in 1..Len(utterance) : ~utterance[i].numeral

\* game_environment.board_size: SudokuEnvironment sets grid_size only; the
\* attribute is either absent or, where a base class provides it, the
\* experiment's board_size (3)
BoardSizes == { [present |-> FALSE, board_size |-> 0], [present |-> TRUE, board_size |-> 3] }

\* _validate_player_response: ValueError and TypeError are caught, the
\* AttributeError of a missing board_size is not
SudokuValidatePlayerResponse(environment, utterance) ==
    IF UnpackRaises(utterance) THEN [raised |-> FALSE, value |-> FALSE]
    ELSE IF ~environment.present THEN [raised |-> TRUE, value |-> FALSE]
    ELSE LET row   == utterance[1].val
             col   == utterance[2].val
             value == utterance[3].val
         IN  [raised |-> FALSE,
              value  |-> /\ 0 <= row /\ row < environment.board_size * 3
                         /\ 0 <= col /\ col < environment.board_size * 3
                         /\ 0 <= value /\ value < environment.board_size]

SudokuParseActionFromResponse(response) ==
    [action_type |-> "fill_cell", row |-> response[1].val, col |-> response[2].val,
     value |-> response[3].val]

SudokuGameConstructed(environment) ==
    [pc |-> "loop", environment |-> environment, response |-> <<>>,
     valid |-> [raised |-> FALSE, value |-> FALSE], action |-> <<>>]

\* play(): a response arrives and is validated
SudokuGameValidate ==
    /\ env = "sudokugame"
    /\ gm.pc = "loop"
    /\ \E utterance \in Utterances :
         gm' = [gm EXCEPT !.pc = "validated", !.response = utterance, !.action = <<>>,
                          !.valid = SudokuValidatePlayerResponse(gm.environment, utterance)]
    /\ UNCHANGED <<env, config, ready, state, terminated, truncated, info, player_observations,
                   explored, current_player, observations, action_spaces, last, accepted>>

\* play(): a response that passed validation is parsed into an action
SudokuGameParse ==
    /\ env = "sudokugame"
    /\ gm.pc = "validated"
    /\ ~gm.valid.raised /\ gm.valid.value
    /\ gm' = [gm EXCEPT !.pc = "parsed", !.action = SudokuParseActionFromResponse(gm.response)]
    /\ UNCHANGED <<env, config, ready, state, terminated, truncated, info, player_observations,
                   explored, current_player, observations, action_spaces, last, accepted>>

SudokuGameInit ==
    /\ env = "sudokugame"
    /\ gm \in { SudokuGameConstructed(e) : e \in BoardSizes }
    /\ config = NA
    /\ state = NA
    /\ current_player = NA
    /\ observations = <<>>
    /\ action_spaces = <<>>
    /\ explored = NA
    /\ terminated = NA
    /\ truncated = NA
    /\ info = NA
    /\ player_observations = NA
    /\ ready = FALSE
    /\ accepted = 0
    /\ last = NoCall

InitSudokuGame == SudokuGameInit
NextSudokuGame == SudokuGameValidate \/ SudokuGameParse
SpecSudokuGame == InitSudokuGame /\ [][NextSudokuGame]_vars

\* the format of the prompt: '<row> <col> <value>', row and col from 0 to 8,
\* value from 1 to 9
InPromptFormat(utterance) ==
    /\ Len(utterance) = 3
    /\ \A i \in 1..3 : utterance[i].numeral
    /\ utterance[1].val \in 0..8 /\ utterance[2].val \in 0..8 /\ utterance[3].val \in 1..9

\* C39: the sudoku master's validation accepts a response exactly when it is
\* three integers row, col in 0..8 and value in 1..9, and the parsed action
\* carries the same three numbers with action_type "fill_cell".
C39_ValidationMatchesPrompt ==
    /\ (env = "sudokugame" /\ gm.pc = "validated")
       => /\ ~gm.valid.raised
          /\ gm.valid.value <=> InPromptFormat(gm.response)
    /\ (env = "sudokugame" /\ gm.pc = "parsed")
       => gm.action = [action_type |-> "fill_cell", row |-> gm.response[1].val,
                       col |-> gm.response[2].val, value |-> gm.response[3].val]

\* the sudoku board of a grid; no value twice in a row, column or block of it
BoardOf(grid) == SudokuGetBoardFromGrid(grid)

NoRepeatedValueIn(board) ==
    \A c, d \in Cells(SudokuConfig) :
        (c # d /\ SameUnit(c, d) /\ board[c] # 0) => board[c] # board[d]

SudokuAcceptedStep ==
    env = "sudoku" /\ last'.op = "step" /\ last'.verdict = "accepted" /\ accepted' = accepted + 1

\* an accepted action takes exactly one cell from 0 to a non-zero value
FillsOneEmptyCell ==
    SudokuAcceptedStep
    => \E c \in Cells(SudokuConfig) :
         /\ BoardOf(state.grid)[c] = 0 /\ BoardOf(state'.grid)[c] # 0
         /\ \A d \in Cells(SudokuConfig) \ {c} : BoardOf(state'.grid)[d] = BoardOf(state.grid)[d]

\* no step changes a cell that is not 0
FilledCellsKept ==
    (env = "sudoku" /\ last'.op = "step")
    => \A c \in Cells(SudokuConfig) :
         BoardOf(state.grid)[c] # 0 => BoardOf(state'.grid)[c] = BoardOf(state.grid)[c]

Marks(g) == { c \in Cells(TTTConfig) : TTTGetBoardFromGrid(state.grid)[c] = g }

XMinusO == Cardinality(Marks(GlyphX)) - Cardinality(Marks(GlyphO))

\* an accepted move marks one cell that was empty; the first after reset() is X
MarksOneEmptyCell ==
    (env = "ttt" /\ last'.op = "step" /\ last'.verdict = "accepted" /\ accepted' = accepted + 1)
    => \E c \in Cells(TTTConfig) :
         /\ TTTGetBoardFromGrid(state.grid)[c] = GlyphEmpty
         /\ TTTGetBoardFromGrid(state'.grid)[c] \in {GlyphX, GlyphO}
         /\ accepted = 0 => TTTGetBoardFromGrid(state'.grid)[c] = GlyphX
         /\ \A d \in Cells(TTTConfig) \ {c} :
              TTTGetBoardFromGrid(state'.grid)[d] = TTTGetBoardFromGrid(state.grid)[d]

\* C32: in every reachable state the number of X marks minus the number of O
\* marks is 0 or 1, X makes the first mark after every reset, and no accepted
\* move writes into a cell that holds X or O.
C32_MarksAlternate ==
    /\ [](env = "ttt" => XMinusO \in {0, 1})
    /\ [][MarksOneEmptyCell]_vars

\* X, O and X have been marked
C32_Witness ==
    /\ env = "ttt" /\ last.op = "step" /\ last.verdict = "accepted"
    /\ Cardinality(Marks(GlyphX)) = 2 /\ Cardinality(Marks(GlyphO)) = 1

\* C33: in the sudoku and tic-tac-toe environments, after construction, any
\* number of reset() calls and accepted steps, every board cell holds exactly
\* one object (homed at the cell), so the first object of a cell is the one
\* last written.
C33_OneObjectPerCell ==
    (env \in {"ttt", "sudoku"})
    => \A c \in DOMAIN state.grid :
         Len(GetObjectsAt(state.grid, c)) = 1 /\ GetObjectsAt(state.grid, c)[1].position = c

\* reset() has run after accepted steps
C33_Witness ==
    /\ env = "sudoku" /\ last.op = "reset" /\ last.after_steps
    /\ \A c \in BlankCells : Len(GetObjectsAt(state.grid, c)) = 1

Neighbourhood(pos) == { c \in Cells(config) : Near(c, pos) }

ExploredSet == { c \in Cells(config) : explored[PortalPlayer][c] }

ExploredSetNext == { c \in Cells(config) : explored'[PortalPlayer][c] }

\* reset() leaves the neighbourhood of the start explored and nothing else; a
\* step adds the neighbourhood of the cell the player is then on and nothing else
ExploredIsUnionOfVisited ==
    /\ (env = "portal" /\ last'.op = "reset")
       => ExploredSetNext = Neighbourhood(state'.player_positions[PortalPlayer])
    /\ (env = "portal" /\ ready /\ last'.op = "step")
       => ExploredSetNext
            = ExploredSet \cup Neighbourhood(state'.player_positions[PortalPlayer])

\* C37: in every reachable state after reset() the player's cell and the
\* in-grid cells of its 3x3 neighbourhood are explored, and the explored set is
\* the union of the 3x3 neighbourhoods of the cells occupied since reset.
C37_ExploredIsVisitedNeighbourhoods ==
    /\ []((env = "portal" /\ ready)
            => Neighbourhood(state.player_positions[PortalPlayer]) \subseteq ExploredSet)
    /\ [][ExploredIsUnionOfVisited]_vars

\* the player has moved and the whole grid is not explored
C37_Witness ==
    /\ env = "portal" /\ ready /\ last.op = "step" /\ last.verdict = "accepted"
    /\ state.player_positions[PortalPlayer] # config.grid.player_start
    /\ ExploredSet # Cells(config)

PlayEnded == env = "helloplay" /\ gm.pc = "done"

====
